---- MODULE Spec2Model ----
(***************************************************************************)
(* cmux-proxy: header-driven multiplexing reverse proxy (src/src/lib.rs).  *)
(*                                                                         *)
(* Text is modelled as a sequence of one-character strings, a HeaderMap as *)
(* a sequence of <<name, value>> entries whose names are lower-case (the   *)
(* http crate normalises header names when it parses them), Option<T> as   *)
(* a sequence of length 0 (None) or 1 (Some), and Result<T, Response> as a *)
(* record [ok, val, status, msg].                                          *)
(***************************************************************************)
EXTENDS Integers, Sequences, FiniteSets, TLC

VARIABLES
    pc,        \* position of the request on the connection: idle / await_upstream / done
    req,       \* the inbound Request<Body> being served
    handler,   \* which of handle_http / handle_upgrade / handle_connect ran
    port,      \* Result of get_port_from_header for this request
    uhost,     \* Result of upstream_host_from_headers for this request
    upstream,  \* requests handed to the pooled client for this request
    resp,      \* responses returned to the client for this request
    task,      \* tunnel tasks spawned for this request
    reply,     \* the upstream's response to this request, once the client has it
    wsname,    \* the name handed to workspace_ip_from_name
    wsip,      \* [done, val]: whether the call returned, and what
    sup,       \* spawn_proxy_multi: [at, i, n], its position in the loop over listens
    listeners, \* per listen address: [state, woken, inflight]
    shutdown,  \* the shutdown future and the notifier task: pending / completed / notified
    joinHandle,\* the returned JoinHandle: none / joining / complete
    tunnels,   \* spliced Upgrade/CONNECT tunnels still open
    listens,   \* main: the --listen addresses as parsed
    deduped,   \* main: [done, val], the addresses handed to spawn_proxy_multi
    splices,   \* the tunnel tasks running detached from their requests
    listening, \* the upstream authorities <<host, port>> something listens on
    previous,  \* the previous request on this proxy and its status
    pool       \* the authorities the shared client holds an idle connection to

handlerVars == <<pc, req, handler, port, uhost, upstream, resp, task, reply>>
mapperVars == <<wsname, wsip>>
supVars == <<sup, listeners, shutdown, joinHandle, tunnels>>
dedupVars == <<listens, deduped>>
tunnelVars == <<splices>>
upstreamVars == <<listening, previous, pool>>

\* The variables of the parts of the program other than the request handlers.
others == <<mapperVars, supVars, dedupVars, tunnelVars, upstreamVars>>

vars == <<handlerVars, others>>

(***************************************************************************)
(* Bounds                                                                  *)
(***************************************************************************)
\* Longest generated Host label (the part before ".localhost").
MaxLabelLen == 4
\* Most --listen addresses given to main.
MaxAddrs == 3

\* Tunnel tasks running next to one another, and the bytes their ends write.
MaxSplices == 2
MaxBytes == 2
\* Most listen addresses handed to spawn_proxy_multi.
MaxListens == 2
\* Most requests in flight on one listener.
MaxInflight == 2
\* Most tunnels open at once.
MaxTunnels == 1
\* Longest generated workspace name.
MaxNameLen == 4
\* Most digits appended to "4294967" in a generated workspace name.
MaxTailLen == 3
\* Longest generated X-Cmux-Port-Internal value.
MaxPortLen == 4

(***************************************************************************)
(* Option and Result                                                       *)
(***************************************************************************)
None == <<>>
Some(v) == <<v>>
IsSome(o) == Len(o) = 1
Unwrap(o) == o[1]

Ok(v) == [ok |-> TRUE, val |-> v, status |-> 0, msg |-> ""]
Err(st, m) == [ok |-> FALSE, val |-> 0, status |-> st, msg |-> m]
NotRun == [ok |-> FALSE, val |-> 0, status |-> 0, msg |-> "not evaluated"]

(***************************************************************************)
(* Text helpers (Rust str methods)                                         *)
(***************************************************************************)
UpperChars == <<"A","B","C","D","E","F","G","H","I","J","K","L","M",
                "N","O","P","Q","R","S","T","U","V","W","X","Y","Z">>
LowerChars == <<"a","b","c","d","e","f","g","h","i","j","k","l","m",
                "n","o","p","q","r","s","t","u","v","w","x","y","z">>
Digits == <<"0","1","2","3","4","5","6","7","8","9">>

\* A byte outside visible ASCII: HeaderValue::to_str fails on it.
NonAscii == "\\x80"

LowerChar(c) ==
    IF \E i \in 1..26 : UpperChars[i] = c
    THEN LowerChars[CHOOSE i \in 1..26 : UpperChars[i] = c]
    ELSE c

to_ascii_lowercase(s) == [i \in 1..Len(s) |-> LowerChar(s[i])]

is_ascii_digit(c) == \E i \in 1..10 : Digits[i] = c
DigitVal(c) == (CHOOSE i \in 1..10 : Digits[i] = c) - 1

IsWhitespace(c) == c \in {" ", "\t"}

\* str::trim
Trim(s) ==
    LET keep == {i \in 1..Len(s) : ~IsWhitespace(s[i])}
    IN  IF keep = {} THEN <<>>
        ELSE SubSeq(s, CHOOSE i \in keep : \A j \in keep : i <= j,
                       CHOOSE i \in keep : \A j \in keep : j <= i)

\* str::find / str::rfind of one character: its index, 0 when absent.
Find(s, c) ==
    LET at == {i \in 1..Len(s) : s[i] = c}
    IN  IF at = {} THEN 0 ELSE CHOOSE i \in at : \A j \in at : i <= j
RFind(s, c) ==
    LET at == {i \in 1..Len(s) : s[i] = c}
    IN  IF at = {} THEN 0 ELSE CHOOSE i \in at : \A j \in at : j <= i

ends_with(s, suf) ==
    /\ Len(s) >= Len(suf)
    /\ SubSeq(s, Len(s) - Len(suf) + 1, Len(s)) = suf

\* str::contains of a substring
contains(s, sub) ==
    \E i \in 1..(Len(s) + 1) :
        /\ i + Len(sub) - 1 <= Len(s)
        /\ SubSeq(s, i, i + Len(sub) - 1) = sub

\* str::split(c): the pieces between the separators, empty pieces included.
RECURSIVE split(_, _)
split(s, c) ==
    LET i == Find(s, c)
    IN  IF i = 0 THEN <<s>>
        ELSE <<SubSeq(s, 1, i - 1)>> \o split(SubSeq(s, i + 1, Len(s)), c)

\* HeaderValue::to_str: fails unless every byte is visible ASCII or a tab.
to_str(v) ==
    IF \E i \in 1..Len(v) : v[i] = NonAscii THEN None ELSE Some(v)

\* <u16 as FromStr>::from_str: an optional '+', then one or more digits,
\* accumulated with checked_mul(10) and checked_add(digit).
U16Max == 65535
RECURSIVE ParseDigitsU16(_, _)
ParseDigitsU16(s, acc) ==
    IF s = <<>> THEN Some(acc)
    ELSE IF ~is_ascii_digit(Head(s)) THEN None
    ELSE IF acc * 10 + DigitVal(Head(s)) > U16Max THEN None
    ELSE ParseDigitsU16(Tail(s), acc * 10 + DigitVal(Head(s)))

ParseU16(s) ==
    IF s = <<>> THEN None
    ELSE IF s = <<"+">> \/ s = <<"-">> THEN None
    ELSE IF Head(s) = "+" THEN ParseDigitsU16(Tail(s), 0)
    ELSE ParseDigitsU16(s, 0)

(***************************************************************************)
(* HeaderMap                                                               *)
(***************************************************************************)
HeaderGet(h, name) ==
    LET at == {i \in 1..Len(h) : h[i][1] = name}
    IN  IF at = {} THEN None
        ELSE Some(h[CHOOSE i \in at : \A j \in at : i <= j][2])

HeaderContains(h, name) == \E i \in 1..Len(h) : h[i][1] = name

HeaderRemove(h, name) == SelectSeq(h, LAMBDA e : e[1] # name)

\* HeaderMap::insert: the name keeps its place and holds the new value alone.
HeaderInsert(h, name, value) ==
    IF HeaderContains(h, name)
    THEN LET first == CHOOSE i \in 1..Len(h) :
                         /\ h[i][1] = name
                         /\ \A j \in 1..(i - 1) : h[j][1] # name
             keepIdx == {i \in 1..Len(h) : h[i][1] # name \/ i = first}
             F[i \in 0..Len(h)] ==
                 IF i = 0 THEN <<>>
                 ELSE IF i = first THEN Append(F[i - 1], <<name, value>>)
                 ELSE IF i \in keepIdx THEN Append(F[i - 1], h[i])
                 ELSE F[i - 1]
         IN  F[Len(h)]
    ELSE Append(h, <<name, value>>)

HeaderNames(h) == {h[i][1] : i \in 1..Len(h)}


\* The text of a header name (HeaderName::as_str), for the names of the model.
HeaderNameText(n) ==
    CASE n = "host" -> <<"h","o","s","t">>
      [] n = "connection" -> <<"c","o","n","n","e","c","t","i","o","n">>
      [] n = "upgrade" -> <<"u","p","g","r","a","d","e">>
      [] n = "keep-alive" -> <<"k","e","e","p","-","a","l","i","v","e">>
      [] n = "proxy-authenticate" -> <<"p","r","o","x","y","-","a","u","t","h","e","n","t","i","c","a","t","e">>
      [] n = "proxy-authorization" -> <<"p","r","o","x","y","-","a","u","t","h","o","r","i","z","a","t","i","o","n">>
      [] n = "te" -> <<"t","e">>
      [] n = "trailers" -> <<"t","r","a","i","l","e","r","s">>
      [] n = "transfer-encoding" -> <<"t","r","a","n","s","f","e","r","-","e","n","c","o","d","i","n","g">>
      [] n = "proxy-connection" -> <<"p","r","o","x","y","-","c","o","n","n","e","c","t","i","o","n">>
      [] n = "x-cmux-port-internal" -> <<"x","-","c","m","u","x","-","p","o","r","t","-","i","n","t","e","r","n","a","l">>
      [] n = "x-cmux-workspace-internal" -> <<"x","-","c","m","u","x","-","w","o","r","k","s","p","a","c","e","-","i","n","t","e","r","n","a","l">>
      [] n = "x-foo" -> <<"x","-","f","o","o">>
      [] n = "accept" -> <<"a","c","c","e","p","t">>
      [] n = "sec-websocket-accept" -> <<"s","e","c","-","w","e","b","s","o","c","k","e","t","-","a","c","c","e","p","t">>
      [] n = "set-cookie" -> <<"s","e","t","-","c","o","o","k","i","e">>
      [] n = "content-type" -> <<"c","o","n","t","e","n","t","-","t","y","p","e">>

\* HeaderMap::remove with the name given as text (HeaderName::from_bytes).
HeaderRemoveText(h, text) == SelectSeq(h, LAMBDA e : HeaderNameText(e[1]) # text)

\* Code point of an ASCII character of the model's alphabet.
Ord(c) ==
    IF \E i \in 1..26 : LowerChars[i] = c
    THEN 96 + (CHOOSE i \in 1..26 : LowerChars[i] = c)
    ELSE IF \E i \in 1..26 : UpperChars[i] = c
    THEN 64 + (CHOOSE i \in 1..26 : UpperChars[i] = c)
    ELSE IF is_ascii_digit(c) THEN 48 + DigitVal(c)
    ELSE CASE c = " " -> 32
           [] c = "+" -> 43
           [] c = "," -> 44
           [] c = "-" -> 45
           [] c = "." -> 46
           [] c = "/" -> 47
           [] c = ":" -> 58
           [] c = "_" -> 95
           [] c = "\t" -> 9

\* Decimal text of a natural number (Display for integers).
RECURSIVE DecText(_)
DecText(n) ==
    IF n < 10 THEN <<Digits[n + 1]>>
    ELSE DecText(n \div 10) \o <<Digits[(n % 10) + 1]>>

(***************************************************************************)
(* workspace_ip_from_name.  A u32 is kept as two 16-bit halves <<hi, lo>>. *)
(***************************************************************************)
U16Mod == 65536
FnvOffsetHi == 33052   \* 0x811C
FnvOffsetLo == 40389   \* 0x9DC5
FnvPrimeHi == 256      \* 0x0100
FnvPrimeLo == 403      \* 0x0193

RECURSIVE Xor(_, _)
Xor(a, b) ==
    IF a = 0 THEN b
    ELSE IF b = 0 THEN a
    ELSE (((a % 2) + (b % 2)) % 2) + 2 * Xor(a \div 2, b \div 2)

\* u32::wrapping_mul on halves: (hi, lo) * (FnvPrimeHi, FnvPrimeLo) mod 2^32.
WrappingMulPrime(h) ==
    LET low == h[2] * FnvPrimeLo
        hi == (h[1] * FnvPrimeLo + h[2] * FnvPrimeHi + (low \div U16Mod)) % U16Mod
    IN  <<hi, low % U16Mod>>

\* FNV-1 order: multiply, then xor.
RECURSIVE Fnv1MultiplyFirst(_, _)
Fnv1MultiplyFirst(bytes, h) ==
    IF bytes = <<>> THEN h
    ELSE LET m == WrappingMulPrime(h)
         IN  Fnv1MultiplyFirst(Tail(bytes), <<m[1], Xor(m[2], Ord(Head(bytes)))>>)

RECURSIVE Fnv1a(_, _)
Fnv1a(bytes, h) ==
    IF bytes = <<>> THEN h
    ELSE Fnv1a(Tail(bytes), WrappingMulPrime(<<h[1], Xor(h[2], Ord(Head(bytes)))>>))

\* A parse that wraps modulo 2^32 where u32::from_str reports overflow.
RECURSIVE ParseDigitsU32Wrapping(_, _)
ParseDigitsU32Wrapping(s, acc) ==
    IF s = <<>> THEN Some(acc)
    ELSE LET low == acc[2] * 10 + DigitVal(Head(s))
             hi == acc[1] * 10 + (low \div U16Mod)
         IN  ParseDigitsU32Wrapping(Tail(s), <<hi % U16Mod, low % U16Mod>>)

\* <u32 as FromStr>::from_str on a run of digits: None on overflow.
RECURSIVE ParseDigitsU32(_, _)
ParseDigitsU32(s, acc) ==
    IF s = <<>> THEN Some(acc)
    ELSE LET low == acc[2] * 10 + DigitVal(Head(s))
             hi == acc[1] * 10 + (low \div U16Mod)
         IN  IF hi >= U16Mod THEN None
             ELSE ParseDigitsU32(Tail(s), <<hi, low % U16Mod>>)

\* name.split('/').next(): the text before the first '/'.
FirstSegment(name) ==
    SubSeq(name, 1, IF Find(name, "/") = 0 THEN Len(name) ELSE Find(name, "/") - 1)

\* name.rsplit('/').next(): the text after the last '/'.
LastSegment(name) == SubSeq(name, RFind(name, "/") + 1, Len(name))

\* The maximal run of ASCII digits at the end of the text.
TrailingDigits(base) ==
    LET nond == {i \in 1..Len(base) : ~is_ascii_digit(base[i])}
        last == IF nond = {} THEN 0 ELSE CHOOSE i \in nond : \A j \in nond : j <= i
    IN  SubSeq(base, last + 1, Len(base))

\* A mapper that saturates at 65535 where the code truncates to 16 bits.
workspace_ip_from_name_Saturating(name) ==
    LET base == LastSegment(name)
        digits == TrailingDigits(base)
        n == IF digits # <<>>
             THEN ParseDigitsU32(digits, <<0, 0>>)
             ELSE Some(<<0, Fnv1a(to_ascii_lowercase(base), <<FnvOffsetHi, FnvOffsetLo>>)[2]>>)
    IN  IF ~IsSome(n) THEN None
        ELSE IF Unwrap(n)[1] > 0 THEN Some(<<127, 18, 255, 255>>)
        ELSE Some(<<127, 18, (Unwrap(n)[2] \div 256) % 256, Unwrap(n)[2] % 256>>)

\* The mapper as its doc comment has it: None without trailing digits.
workspace_ip_from_name_DigitsOnly(name) ==
    LET digits == TrailingDigits(LastSegment(name))
        n == IF digits # <<>> THEN ParseDigitsU32(digits, <<0, 0>>) ELSE None
    IN  IF ~IsSome(n) THEN None
        ELSE Some(<<127, 18, (Unwrap(n)[2] \div 256) % 256, Unwrap(n)[2] % 256>>)

workspace_ip_from_name(name) ==
    LET base == LastSegment(name)
        digits == TrailingDigits(base)
        n == IF digits # <<>>
             THEN ParseDigitsU32(digits, <<0, 0>>)
             ELSE Some(<<0, Fnv1a(to_ascii_lowercase(base), <<FnvOffsetHi, FnvOffsetLo>>)[2]>>)
    IN  IF ~IsSome(n) THEN None
        ELSE Some(<<127, 18, (Unwrap(n)[2] \div 256) % 256, Unwrap(n)[2] % 256>>)

\* Ipv4Addr::to_string
Ipv4Text(ip) ==
    DecText(ip[1]) \o <<".">> \o DecText(ip[2]) \o <<".">> \o
    DecText(ip[3]) \o <<".">> \o DecText(ip[4])

(***************************************************************************)
(* Header Resolver                                                         *)
(***************************************************************************)
HDR == "x-cmux-port-internal"
HDR_WS == "x-cmux-workspace-internal"
CONNECTION == "connection"
UPGRADE == "upgrade"
SUFFIX == <<".","l","o","c","a","l","h","o","s","t">>

\* host_val.split_once(':').map(|(h, _)| h).unwrap_or(host_val)
HostOnly(host_val) ==
    LET i == Find(host_val, ":")
    IN  IF i = 0 THEN host_val ELSE SubSeq(host_val, 1, i - 1)

\* label.rfind('-')
DashIndexFirst(label) == Find(label, "-")
DashIndex(label) == RFind(label, "-")

\* The label before ".localhost" split into (workspace, port).
SplitLabel(label) ==
    LET dash_idx == DashIndex(label)
    IN  IF dash_idx = 0 THEN None
        ELSE LET ws_part == SubSeq(label, 1, dash_idx - 1)
                 port_str == SubSeq(label, dash_idx + 1, Len(label))
             IN  IF ws_part = <<>> \/ port_str = <<>> THEN None
                 ELSE IF ~IsSome(ParseU16(port_str)) THEN None
                 ELSE Some(<<ws_part, Unwrap(ParseU16(port_str))>>)

\* parse_workspace_port_from_host on the text of the Host value.
ParseHostText(text) ==
    LET host_val == Trim(text)
        host_only == HostOnly(host_val)
        host_lc == to_ascii_lowercase(host_only)
    IN  IF host_val = <<>> THEN None
        ELSE IF ~ends_with(host_lc, SUFFIX) THEN None
        ELSE SplitLabel(SubSeq(host_only, 1, Len(host_only) - Len(SUFFIX)))

parse_workspace_port_from_host(headers) ==
    LET v == HeaderGet(headers, "host")
    IN  IF ~IsSome(v) THEN None
        ELSE IF ~IsSome(to_str(Unwrap(v))) THEN None
        ELSE ParseHostText(Unwrap(to_str(Unwrap(v))))

\* The port header's value, once present: trimmed, non-empty, parsed as u16.
PortFromValue(val) ==
    IF ~IsSome(to_str(val)) THEN Err(400, "invalid header value (not UTF-8)")
    ELSE LET s == Trim(Unwrap(to_str(val)))
         IN  IF s = <<>> THEN Err(400, "header value cannot be empty")
             ELSE IF ~IsSome(ParseU16(s))
             THEN Err(400, "invalid port in X-Cmux-Port-Internal")
             ELSE Ok(Unwrap(ParseU16(s)))

\* The Host fallback of get_port_from_header.
PortFromHost(headers) ==
    IF IsSome(parse_workspace_port_from_host(headers))
    THEN Ok(Unwrap(parse_workspace_port_from_host(headers))[2])
    ELSE Err(400, "missing required header: X-Cmux-Port-Internal")

get_port_from_header_HostFirst(headers) ==
    IF IsSome(parse_workspace_port_from_host(headers))
    THEN PortFromHost(headers)
    ELSE IF IsSome(HeaderGet(headers, HDR))
    THEN PortFromValue(Unwrap(HeaderGet(headers, HDR)))
    ELSE PortFromHost(headers)
get_port_from_header(headers) ==
    IF IsSome(HeaderGet(headers, HDR))
    THEN PortFromValue(Unwrap(HeaderGet(headers, HDR)))
    ELSE PortFromHost(headers)

\* The workspace header's value, once present.
HostFromWorkspaceValue(val) ==
    IF ~IsSome(to_str(val))
    THEN Err(400, "invalid header value (not UTF-8): X-Cmux-Workspace-Internal")
    ELSE LET ws == Trim(Unwrap(to_str(val)))
         IN  IF ws = <<>> THEN Err(400, "X-Cmux-Workspace-Internal cannot be empty")
             ELSE IF ~IsSome(workspace_ip_from_name(ws))
             THEN Err(400, "invalid workspace name")
             ELSE Ok(Ipv4Text(Unwrap(workspace_ip_from_name(ws))))

\* A Host fallback that goes to the default when the workspace has no IP.
HostFromSubdomain_DefaultWhenUnmapped(headers, default_host) ==
    LET parsed == parse_workspace_port_from_host(headers)
    IN  IF IsSome(parsed) /\ IsSome(workspace_ip_from_name(Unwrap(parsed)[1]))
        THEN Ok(Ipv4Text(Unwrap(workspace_ip_from_name(Unwrap(parsed)[1]))))
        ELSE Ok(default_host)

\* The Host fallback of upstream_host_from_headers, then the default.
HostFromSubdomain(headers, default_host) ==
    LET parsed == parse_workspace_port_from_host(headers)
    IN  IF IsSome(parsed)
        THEN IF IsSome(workspace_ip_from_name(Unwrap(parsed)[1]))
             THEN Ok(Ipv4Text(Unwrap(workspace_ip_from_name(Unwrap(parsed)[1]))))
             ELSE Err(400, "invalid workspace name")
        ELSE Ok(default_host)

upstream_host_from_headers_HostFirst(headers, default_host) ==
    IF IsSome(parse_workspace_port_from_host(headers))
    THEN HostFromSubdomain(headers, default_host)
    ELSE IF IsSome(HeaderGet(headers, HDR_WS))
    THEN HostFromWorkspaceValue(Unwrap(HeaderGet(headers, HDR_WS)))
    ELSE HostFromSubdomain(headers, default_host)
\* A resolution that takes a Host it cannot parse as the upstream's name.
upstream_host_from_headers_HostVerbatim(headers, default_host) ==
    IF IsSome(HeaderGet(headers, HDR_WS))
    THEN HostFromWorkspaceValue(Unwrap(HeaderGet(headers, HDR_WS)))
    ELSE IF IsSome(parse_workspace_port_from_host(headers))
    THEN HostFromSubdomain(headers, default_host)
    ELSE IF IsSome(HeaderGet(headers, "host"))
    THEN Ok(Unwrap(HeaderGet(headers, "host")))
    ELSE Ok(default_host)

upstream_host_from_headers(headers, default_host) ==
    IF IsSome(HeaderGet(headers, HDR_WS))
    THEN HostFromWorkspaceValue(Unwrap(HeaderGet(headers, HDR_WS)))
    ELSE HostFromSubdomain(headers, default_host)

(***************************************************************************)
(* Request Classifier and Hop-by-hop Filter                                *)
(***************************************************************************)
UpgradeText == <<"u","p","g","r","a","d","e">>

is_upgrade_request(r) ==
    IF r.method = "CONNECT" THEN TRUE
    ELSE LET v == HeaderGet(r.headers, CONNECTION)
             has_conn_upgrade ==
                 IF ~IsSome(v) THEN FALSE
                 ELSE IF ~IsSome(to_str(Unwrap(v))) THEN FALSE
                 ELSE contains(to_ascii_lowercase(Unwrap(to_str(Unwrap(v)))), UpgradeText)
             has_upgrade_hdr == HeaderContains(r.headers, UPGRADE)
         IN  has_conn_upgrade /\ has_upgrade_hdr

\* The match in handle: the method first, then is_upgrade.
ClassifyUpgradeFirst(r) ==
    IF is_upgrade_request(r) THEN "upgrade"
    ELSE IF r.method = "CONNECT" THEN "connect"
    ELSE "http"
Classify(r) ==
    IF r.method = "CONNECT" THEN "connect"
    ELSE IF is_upgrade_request(r) THEN "upgrade"
    ELSE "http"

HOP_HEADERS == <<"connection", "keep-alive", "proxy-authenticate",
                 "proxy-authorization", "te", "trailers", "transfer-encoding",
                 "upgrade", "proxy-connection", "x-cmux-port-internal",
                 "x-cmux-workspace-internal">>

\* for name in names { h.remove(name) }
RECURSIVE RemoveAll(_, _)
RemoveAll(h, names) ==
    IF names = <<>> THEN h
    ELSE RemoveAll(HeaderRemove(h, Head(names)), Tail(names))

\* for token in conn_val.split(',') { remove(trim(token).to_ascii_lowercase()) }
RECURSIVE RemoveTokens(_, _)
RemoveTokens(h, tokens) ==
    IF tokens = <<>> THEN h
    ELSE LET name == to_ascii_lowercase(Trim(Head(tokens)))
         IN  RemoveTokens(IF name # <<>> THEN HeaderRemoveText(h, name) ELSE h,
                          Tail(tokens))

\* The second half of strip_hop_by_hop_headers: it reads Connection from the
\* map the first half has already emptied of it.
RemoveConnectionListed(h) ==
    LET v == HeaderGet(h, CONNECTION)
    IN  IF ~IsSome(v) THEN h
        ELSE IF ~IsSome(to_str(Unwrap(v))) THEN h
        ELSE RemoveTokens(h, split(Unwrap(to_str(Unwrap(v))), ","))

strip_hop_by_hop_headers(h) == RemoveConnectionListed(RemoveAll(h, HOP_HEADERS))

\* The copy loop of handle_http and handle_upgrade: every entry but the two
\* routing headers is inserted into the new request's map.
IsRoutingHeader(name) == name = HDR \/ name = HDR_WS

\* The copy loop over a response's headers: every entry is inserted.
RECURSIVE CopyAllHeaders(_, _)
CopyAllHeaders(src, dst) ==
    IF src = <<>> THEN dst
    ELSE CopyAllHeaders(Tail(src), HeaderInsert(dst, Head(src)[1], Head(src)[2]))

CopyHeadersKeepRouting(src, dst) == CopyAllHeaders(src, dst)
RECURSIVE CopyHeaders(_, _)
CopyHeaders(src, dst) ==
    IF src = <<>> THEN dst
    ELSE IF IsRoutingHeader(Head(src)[1]) THEN CopyHeaders(Tail(src), dst)
    ELSE CopyHeaders(Tail(src), HeaderInsert(dst, Head(src)[1], Head(src)[2]))

\* format!("http://{}:{}{}", upstream_host, port, path_and_query)
build_upstream_uri(upstream_host, p, orig) ==
    [scheme |-> "http", host |-> upstream_host, port |-> p,
     path_and_query |-> IF IsSome(orig) THEN Unwrap(orig) ELSE "/"]

(***************************************************************************)
(* Inbound requests.  hyper hands `handle` a parsed Request: lower-case    *)
(* header names, values without surrounding whitespace except where noted. *)
(***************************************************************************)
\* All texts over an alphabet up to a length.
Texts(alphabet, n) == UNION {[1..k -> alphabet] : k \in 0..n}

\* An optional header: absent, or present once with one of the values.
Opt(name, values) == {<<>>} \cup {<<<<name, v>>>> : v \in values}

DefaultHost == <<"1","2","7",".","0",".","0",".","1">>

PortValues == {<<"8","0">>, <<"8","x">>, <<>>}
WorkspaceValues == {<<"w","o","r","k","s","p","a","c","e","-","1">>, <<"w","4","2","9","4","9","6","7","2","9","6">>, <<"D","e","v">>}
HostValues == {<<"w","o","r","k","s","p","a","c","e","-","2","-","8","1",".","l","o","c","a","l","h","o","s","t">>, <<"e","x","a","m","p","l","e",".","c","o","m">>,
               <<"w","4","2","9","4","9","6","7","2","9","6","-","8","1",".","l","o","c","a","l","h","o","s","t">>}
ConnectionValues == {<<"u","p","g","r","a","d","e">>, <<"k","e","e","p","-","a","l","i","v","e",","," ","U","p","g","r","a","d","e">>,
                     <<"x","-","f","o","o">>, <<"n","o","t","-","u","p","g","r","a","d","e">>}
UpgradeValues == {<<"w","e","b","s","o","c","k","e","t">>}
ExtraHeaders ==
    {<<>>,
     <<<<"x-foo", <<"1">>>>, <<"accept", <<"*">>>>>>,
     <<<<"keep-alive", <<"5">>>>, <<"proxy-authenticate", <<"b">>>>,
       <<"proxy-authorization", <<"s">>>>, <<"te", <<"g">>>>,
       <<"trailers", <<"t">>>>, <<"transfer-encoding", <<"c">>>>,
       <<"proxy-connection", <<"k">>>>, <<"x-foo", <<"1">>>>>>}

\* The request-target's path and query: CONNECT's authority form has none.
TargetOf(m) == IF m = "CONNECT" THEN None ELSE Some("/hello")

Request(m, hs) == [method |-> m, uri |-> TargetOf(m), headers |-> hs]

MainRequests ==
    {Request(m, hp \o hw \o hh \o hc \o hu \o hx) :
        m \in {"GET", "CONNECT"},
        hp \in Opt(HDR, PortValues),
        hw \in Opt(HDR_WS, WorkspaceValues),
        hh \in Opt("host", HostValues),
        hc \in Opt(CONNECTION, ConnectionValues),
        hu \in Opt(UPGRADE, UpgradeValues),
        hx \in ExtraHeaders}

\* The three classes of request, around given routing headers.
Around(hs) ==
    {Request("GET", hs), Request("CONNECT", hs),
     Request("GET", hs \o <<<<CONNECTION, UpgradeText>>, <<UPGRADE, <<"w","e","b","s","o","c","k","e","t">>>>>>)}

\* Requests over every port-header text up to MaxPortLen.
PortAlphabet == {"0", "6", " ", "+"}
PortTexts ==
    Texts(PortAlphabet, MaxPortLen)
        \cup {<<"6","5","5","3","5">>, <<"6","5","5","3","6">>, <<"6","x">>, <<"-","6">>, <<"6", NonAscii>>}
PortRequests ==
    UNION {Around(<<<<HDR, v>>>> \o hh) :
              v \in PortTexts, hh \in Opt("host", {<<"w","o","r","k","s","p","a","c","e","-","2","-","8","1",".","l","o","c","a","l","h","o","s","t">>})}

\* Requests over every Host text <label><suffix><:port> with a label up to
\* MaxLabelLen.
LabelAlphabet == {"w", "-", "7"}
HostSuffixes == {SUFFIX, <<".","L","o","c","a","l","H","o","s","t">>, <<".","l","o","c","a","l","h","o","s">>, <<"l","o","c","a","l","h","o","s","t">>, <<".","l","o","c","a","l","h","o","s","t",".","i","o">>, <<>>}
HostPortSuffixes == {<<>>, <<":", "8">>}
HostTexts ==
    {l \o sfx \o ps : l \in Texts(LabelAlphabet, MaxLabelLen),
                      sfx \in HostSuffixes, ps \in HostPortSuffixes}
        \cup {<<"w","-","6","5","5","3","5",".","l","o","c","a","l","h","o","s","t">>,
              <<"w","-","6","5","5","3","6",".","l","o","c","a","l","h","o","s","t">>,
              <<"w","-","+","7",".","l","o","c","a","l","h","o","s","t">>,
              <<"w",":","w","-","7",".","l","o","c","a","l","h","o","s","t">>,
              <<"w","-","7",".","l","o","c","a","l","h","o","s","t",":","8",":","9">>,
              <<"w","-","7","x",".","l","o","c","a","l","h","o","s","t">>,
              <<"w","4","2","9","4","9","6","7","2","9","6","-","8","0",".","l","o","c","a","l","h","o","s","t">>,
              <<"w", "-", "7", NonAscii>> \o SUFFIX,
              <<"w", NonAscii, "-", "7">> \o SUFFIX}
HostRequests ==
    UNION {Around(<<<<"host", v>>>>) : v \in HostTexts}

Requests == MainRequests \cup PortRequests \cup HostRequests

(***************************************************************************)
(* What the upstream may answer to a request sent through the client.      *)
(***************************************************************************)
UpstreamReplies ==
    {[status |-> 200,
      headers |-> <<<<"content-type", <<"t">>>>, <<"connection", <<"x","-","f","o","o">>>>,
                    <<"x-foo", <<"2">>>>, <<"keep-alive", <<"5">>>>>>,
      body |-> "ok body"],
     [status |-> 101,
      headers |-> <<<<"upgrade", <<"w","e","b","s","o","c","k","e","t">>>>, <<"sec-websocket-accept", <<"k">>>>>>,
      body |-> ""],
     [status |-> 101,
      headers |-> <<<<"upgrade", <<"w","e","b","s","o","c","k","e","t">>>>,
                    <<"set-cookie", <<"a">>>>, <<"set-cookie", <<"b">>>>>>,
      body |-> ""],
     [status |-> 404, headers |-> <<>>, body |-> "not found body"],
     [status |-> 403,
      headers |-> <<<<"set-cookie", <<"a">>>>, <<"set-cookie", <<"b">>>>,
                    <<"content-type", <<"t">>>>>>,
      body |-> "forbidden body"]}

NoRequest == [method |-> "", uri |-> None, headers |-> <<>>]

PlainText ==
    <<"t","e","x","t","/","p","l","a","i","n",";"," ","c","h","a","r","s","e","t","=","u","t","f","-","8">>

response_with(status, msg) ==
    [status |-> status,
     headers |-> <<<<"content-type", PlainText>>>>,
     body |-> msg]

\* No call of workspace_ip_from_name outside a request is under way.
NotCalled == [done |-> FALSE, val |-> None]
MapperAtRest == wsname = <<>> /\ wsip = NotCalled

\* main has not looked at its listen addresses.
NotDeduped == [done |-> FALSE, val |-> <<>>]
DedupAtRest == listens = <<>> /\ deduped = NotDeduped

\* No tunnel task runs.
TunnelsAtRest == splices = <<>>

\* Nothing is said about the upstreams; no request has been served.
NoPrevious == [req |-> NoRequest, status |-> 0, target |-> None]
UpstreamsAtRest == listening = {} /\ previous = NoPrevious /\ pool = {}

\* spawn_proxy_multi has not been called.
SupervisorAtRest ==
    /\ sup = [at |-> "none", i |-> 0, n |-> 0]
    /\ listeners = <<>>
    /\ shutdown = "pending"
    /\ joinHandle = "none"
    /\ tunnels = 0

(***************************************************************************)
(* The handlers.  A handler runs to its first await on the upstream; the   *)
(* upstream's answer resumes it.                                           *)
(***************************************************************************)
Init ==
    /\ pc = "idle"
    /\ req = NoRequest
    /\ handler = "none"
    /\ port = NotRun
    /\ uhost = NotRun
    /\ upstream = <<>>
    /\ resp = <<>>
    /\ task = <<>>
    /\ reply = None
    /\ MapperAtRest
    /\ SupervisorAtRest
    /\ DedupAtRest
    /\ TunnelsAtRest
    /\ UpstreamsAtRest

\* The `?` on get_port_from_header and upstream_host_from_headers: the
\* handler returns the 400 and does nothing else.
RoutingFailsAfterSending(r) ==
    LET p == get_port_from_header(r.headers)
        h == IF p.ok THEN upstream_host_from_headers(r.headers, DefaultHost) ELSE NotRun
    IN  /\ ~(p.ok /\ h.ok)
        /\ port' = p
        /\ uhost' = h
        /\ upstream' = Append(upstream,
               [kind |-> "request", method |-> r.method,
                uri |-> build_upstream_uri(DefaultHost, 0, r.uri),
                headers |-> r.headers])
        /\ resp' = <<response_with(400, IF p.ok THEN h.msg ELSE p.msg)>>
        /\ pc' = "done"
        /\ UNCHANGED task
RoutingFails(r) ==
    LET p == get_port_from_header(r.headers)
        h == IF p.ok THEN upstream_host_from_headers(r.headers, DefaultHost) ELSE NotRun
    IN  /\ ~(p.ok /\ h.ok)
        /\ port' = p
        /\ uhost' = h
        /\ resp' = <<response_with(400, IF p.ok THEN h.msg ELSE p.msg)>>
        /\ pc' = "done"
        /\ UNCHANGED <<upstream, task>>

RoutingOk(r) ==
    /\ get_port_from_header(r.headers).ok
    /\ upstream_host_from_headers(r.headers, DefaultHost).ok
    /\ port' = get_port_from_header(r.headers)
    /\ uhost' = upstream_host_from_headers(r.headers, DefaultHost)

\* The headers handle_http sends upstream: copy, then strip.
HttpUpstreamHeaders(r) == strip_hop_by_hop_headers(CopyHeaders(r.headers, <<>>))

\* The headers handle_upgrade sends upstream: copy, then five removals.
UpgradeRemoved == <<"proxy-connection", "keep-alive", "te", "transfer-encoding", "trailers">>
UpgradeUpstreamHeaders(r) == RemoveAll(CopyHeaders(r.headers, <<>>), UpgradeRemoved)

SendUpstream(r, hs) ==
    /\ upstream' = Append(upstream,
           [kind |-> "request", method |-> r.method,
            uri |-> build_upstream_uri(uhost'.val, port'.val, r.uri),
            headers |-> hs])
    /\ pc' = "await_upstream"
    /\ UNCHANGED <<resp, task>>

handle_http(r) ==
    \/ RoutingFails(r)
    \/ /\ RoutingOk(r)
       /\ SendUpstream(r, HttpUpstreamHeaders(r))

handle_upgrade(r) ==
    \/ RoutingFails(r)
    \/ /\ RoutingOk(r)
       /\ SendUpstream(r, UpgradeUpstreamHeaders(r))

\* A CONNECT handler that tunnels to the authority of the request-target.
handle_connect_ToRequestTarget(r) ==
    \/ RoutingFails(r)
    \/ /\ RoutingOk(r)
       /\ resp' = <<[status |-> 200,
                     headers |-> <<<<CONNECTION, UpgradeText>>>>,
                     body |-> ""]>>
       /\ task' = Append(task, [kind |-> "connect",
                                target |-> IF "authority" \in DOMAIN r THEN r.authority
                                           ELSE <<uhost'.val, port'.val>>,
                                state |-> "spawned"])
       /\ pc' = "done"
       /\ UNCHANGED upstream

handle_connect(r) ==
    \/ RoutingFails(r)
    \/ /\ RoutingOk(r)
       /\ resp' = <<[status |-> 200,
                     headers |-> <<<<CONNECTION, UpgradeText>>>>,
                     body |-> ""]>>
       /\ task' = Append(task, [kind |-> "connect",
                                target |-> <<uhost'.val, port'.val>>,
                                state |-> "spawned"])
       /\ pc' = "done"
       /\ UNCHANGED upstream

handle(r) ==
    /\ pc = "idle"
    /\ req' = r
    /\ handler' = Classify(r)
    /\ \/ Classify(r) = "connect" /\ handle_connect(r)
       \/ Classify(r) = "upgrade" /\ handle_upgrade(r)
       \/ Classify(r) = "http" /\ handle_http(r)

\* A failed exchange reported as the proxy's own error.
UpstreamFailsInternalError ==
    /\ pc = "await_upstream"
    /\ resp' = <<response_with(500, "upstream request error")>>
    /\ pc' = "done"
    /\ UNCHANGED <<req, handler, port, uhost, upstream, task, reply, others>>

\* client.request(..).await fails: 502 from either handler.
UpstreamFails ==
    /\ pc = "await_upstream"
    /\ resp' = <<response_with(502,
                     IF handler = "http" THEN "upstream request error"
                     ELSE "upstream upgrade error")>>
    /\ pc' = "done"
    /\ UNCHANGED <<req, handler, port, uhost, upstream, task, reply, others>>

\* handle_http after the await: status and headers copied, then stripped.
HttpReply(rep) ==
    /\ pc = "await_upstream"
    /\ handler = "http"
    /\ resp' = <<[status |-> rep.status,
                  headers |-> strip_hop_by_hop_headers(CopyAllHeaders(rep.headers, <<>>)),
                  body |-> rep.body]>>
    /\ reply' = Some(rep)
    /\ pc' = "done"
    /\ UNCHANGED <<req, handler, port, uhost, upstream, task, others>>

\* handle_upgrade after the await: any status but 101 is passed on as it is;
\* a 101 is mirrored with Connection: upgrade and the tunnel task is spawned.
UpgradeReply(rep) ==
    /\ pc = "await_upstream"
    /\ handler = "upgrade"
    /\ \/ /\ rep.status # 101
          /\ resp' = <<[status |-> rep.status,
                        headers |-> CopyAllHeaders(rep.headers, <<>>),
                        body |-> rep.body]>>
          /\ task' = task
       \/ /\ rep.status = 101
          /\ resp' = <<[status |-> 101,
                        headers |-> HeaderInsert(CopyAllHeaders(rep.headers, <<>>),
                                                 CONNECTION, UpgradeText),
                        body |-> ""]>>
          /\ task' = Append(task, [kind |-> "upgrade",
                                   target |-> <<uhost.val, port.val>>,
                                   state |-> "spawned"])
    /\ reply' = Some(rep)
    /\ pc' = "done"
    /\ UNCHANGED <<req, handler, port, uhost, upstream, others>>

\* The response is written; the connection serves its next request.
NextRequest ==
    /\ pc = "done"
    /\ pc' = "idle"
    /\ req' = NoRequest
    /\ handler' = "none"
    /\ port' = NotRun
    /\ uhost' = NotRun
    /\ upstream' = <<>>
    /\ resp' = <<>>
    /\ task' = <<>>
    /\ reply' = None
    /\ UNCHANGED others

\* service_fn: the connection's next request is parsed and handed to handle.
Serve ==
    /\ pc = "idle"
    /\ \E r \in Requests : handle(r)
    /\ UNCHANGED <<reply, others>>

Next ==
    \/ Serve
    \/ UpstreamFails
    \/ \E rep \in UpstreamReplies : HttpReply(rep)
    \/ \E rep \in UpstreamReplies : UpgradeReply(rep)
    \/ NextRequest

Spec == Init /\ [][Next]_vars

(***************************************************************************)
(* workspace_ip_from_name called on its own (it is a public function of    *)
(* the library): the caller's name goes in, the Option comes back.         *)
(***************************************************************************)
NameAlphabet == {"w", "W", "/", "1", "-"}
\* Digit runs around u32::MAX = 4294967295: "4294967" and up to MaxTailLen
\* more digits.
TailAlphabet == {"0", "2", "5", "6", "9"}
NameTexts ==
    Texts(NameAlphabet, MaxNameLen)
        \cup {<<"w">> \o z \o <<"4","2","9","4","9","6","7">> \o t :
                 z \in {<<>>, <<"0","0">>}, t \in Texts(TailAlphabet, MaxTailLen)}
        \cup {<<"w","o","r","k","s","p","a","c","e","-","1">>,
              <<"w","o","r","k","s","p","a","c","e","-","6","5","5","3","7">>,
              <<"w","o","r","k","s","p","a","c","e","-","c">>,
              <<"W","o","r","k","S","p","a","c","e","-","C">>,
              <<"d","e","v","/","w","s","-","2","5","8">>,
              <<"1","/","D","e","v">>, <<"a">>, <<"a","/">>,
              <<"w","0">>, <<"w","6","5","5","3","6">>, <<"w","1","0","5","4","0">>,
              <<"w","4","2","9","4","9","0","1","7","5","9">>,
              <<"f","o","o","b","a","r">>}

\* No request is being served.
HandlersAtRest ==
    /\ pc = "idle"
    /\ req = NoRequest
    /\ handler = "none"
    /\ port = NotRun
    /\ uhost = NotRun
    /\ upstream = <<>>
    /\ resp = <<>>
    /\ task = <<>>
    /\ reply = None

InitMapper ==
    /\ HandlersAtRest
    /\ SupervisorAtRest
    /\ DedupAtRest
    /\ TunnelsAtRest
    /\ UpstreamsAtRest
    /\ wsname \in NameTexts
    /\ wsip = NotCalled

\* The call returns.
CallMapper ==
    /\ ~wsip.done
    /\ wsip' = [done |-> TRUE, val |-> workspace_ip_from_name(wsname)]
    /\ UNCHANGED <<handlerVars, wsname, supVars, dedupVars, tunnelVars, upstreamVars>>

NextMapper == CallMapper

SpecMapper == InitMapper /\ [][NextMapper]_vars

(***************************************************************************)
(* spawn_proxy_multi: one hyper server per listen address, all under one   *)
(* JoinSet, with one Notify fanning the shutdown out.  The caller's thread *)
(* runs the loop over listens; the notifier task, the server tasks and the *)
(* join task run on the runtime's workers, in any order.                   *)
(*                                                                         *)
(* A listener is unbound (its address not reached yet), spawned (bound,    *)
(* its task in the JoinSet, not polled yet), serving (polled: accepting,   *)
(* its notified() future registered with the Notify), draining, exited,    *)
(* failed (bind error) or aborted (its task cancelled).                    *)
(***************************************************************************)
NewListener == [state |-> "unbound", woken |-> FALSE, inflight |-> 0]

InitSupervisor ==
    /\ HandlersAtRest
    /\ MapperAtRest
    /\ DedupAtRest
    /\ TunnelsAtRest
    /\ UpstreamsAtRest
    /\ \E n \in 0..MaxListens :
          /\ sup = [at |-> "loop", i |-> 1, n |-> n]
          /\ listeners = [i \in 1..n |-> NewListener]
    /\ shutdown = "pending"
    /\ joinHandle = "none"
    /\ tunnels = 0

Live == {"spawned", "serving", "draining"}

\* Dropping the JoinSet aborts every task still in it.
AbortAll(ls) ==
    [i \in DOMAIN ls |->
        IF ls[i].state \in Live THEN [ls[i] EXCEPT !.state = "aborted"] ELSE ls[i]]

\* One round of the loop: hyper::Server::bind, with_graceful_shutdown,
\* join_set.spawn.  Server::bind panics when the address cannot be bound;
\* the panic unwinds out of spawn_proxy_multi and drops the JoinSet.
Bind ==
    /\ sup.at = "loop"
    /\ sup.i <= sup.n
    /\ \/ /\ listeners' = [listeners EXCEPT ![sup.i].state = "spawned"]
          /\ sup' = [sup EXCEPT !.i = sup.i + 1]
       \/ /\ listeners' = [AbortAll(listeners) EXCEPT ![sup.i].state = "failed"]
          /\ sup' = [sup EXCEPT !.at = "panicked"]
    /\ UNCHANGED <<handlerVars, mapperVars, dedupVars, tunnelVars, upstreamVars, shutdown, joinHandle, tunnels>>

\* After the loop the join task is spawned and (bound_addrs, handle) returned.
Return ==
    /\ sup.at = "loop"
    /\ sup.i = sup.n + 1
    /\ sup' = [sup EXCEPT !.at = "returned"]
    /\ joinHandle' = "joining"
    /\ UNCHANGED <<handlerVars, mapperVars, dedupVars, tunnelVars, upstreamVars, listeners, shutdown, tunnels>>

\* The caller's shutdown future becomes ready.
ShutdownCompletes ==
    /\ shutdown = "pending"
    /\ shutdown' = "completed"
    /\ UNCHANGED <<handlerVars, mapperVars, dedupVars, tunnelVars, upstreamVars, sup, listeners, joinHandle, tunnels>>

\* The notifier task: shutdown.await returned, notify_waiters() wakes the
\* notified() futures registered at this moment and stores no permit.
NotifyWaiters ==
    /\ shutdown = "completed"
    /\ shutdown' = "notified"
    /\ listeners' = [i \in DOMAIN listeners |->
                        IF listeners[i].state = "serving"
                        THEN [listeners[i] EXCEPT !.woken = TRUE]
                        ELSE listeners[i]]
    /\ UNCHANGED <<handlerVars, mapperVars, dedupVars, tunnelVars, upstreamVars, sup, joinHandle, tunnels>>

\* A server task is polled for the first time: the graceful-shutdown block
\* runs up to notify.notified().await, and the server starts accepting.
FirstPoll(i) ==
    /\ listeners[i].state = "spawned"
    /\ listeners' = [listeners EXCEPT ![i].state = "serving"]
    /\ UNCHANGED <<handlerVars, mapperVars, dedupVars, tunnelVars, upstreamVars, sup, shutdown, joinHandle, tunnels>>

\* A connection is accepted and its request handed to handle.
Accept(i) ==
    /\ listeners[i].state = "serving"
    /\ listeners[i].inflight < MaxInflight
    /\ listeners' = [listeners EXCEPT ![i].inflight = @ + 1]
    /\ UNCHANGED <<handlerVars, mapperVars, dedupVars, tunnelVars, upstreamVars, sup, shutdown, joinHandle, tunnels>>

\* A request's response is written in full.  Connections are tasks of their
\* own, so this goes on whatever has become of the server task.
Respond(i) ==
    /\ listeners[i].inflight > 0
    /\ listeners' = [listeners EXCEPT ![i].inflight = @ - 1]
    /\ UNCHANGED <<handlerVars, mapperVars, dedupVars, tunnelVars, upstreamVars, sup, shutdown, joinHandle, tunnels>>

\* The response is a 101 or a CONNECT 200: the connection leaves the server
\* and its I/O goes to the tokio::spawn-ed tunnel task.
OpenTunnel(i) ==
    /\ listeners[i].inflight > 0
    /\ tunnels < MaxTunnels
    /\ listeners' = [listeners EXCEPT ![i].inflight = @ - 1]
    /\ tunnels' = tunnels + 1
    /\ UNCHANGED <<handlerVars, mapperVars, dedupVars, tunnelVars, upstreamVars, sup, shutdown, joinHandle>>

\* copy_bidirectional returns: one side closed or failed.
CloseTunnel ==
    /\ tunnels > 0
    /\ tunnels' = tunnels - 1
    /\ UNCHANGED <<handlerVars, mapperVars, dedupVars, tunnelVars, upstreamVars, sup, listeners, shutdown, joinHandle>>

\* A server that starts its drain without having been woken.
BeginDrainUnsignalled(i) ==
    /\ listeners[i].state = "serving"
    /\ listeners' = [listeners EXCEPT ![i].state = "draining"]
    /\ UNCHANGED <<handlerVars, mapperVars, dedupVars, tunnelVars, upstreamVars, sup, shutdown, joinHandle, tunnels>>

\* The woken notified() completes: the server stops accepting and drains.
BeginDrain(i) ==
    /\ listeners[i].state = "serving"
    /\ listeners[i].woken
    /\ listeners' = [listeners EXCEPT ![i].state = "draining"]
    /\ UNCHANGED <<handlerVars, mapperVars, dedupVars, tunnelVars, upstreamVars, sup, shutdown, joinHandle, tunnels>>

\* A server task that returns while requests are still in flight.
ServerExitAtOnce(i) ==
    /\ listeners[i].state = "draining"
    /\ listeners' = [listeners EXCEPT ![i].state = "exited"]
    /\ UNCHANGED <<handlerVars, mapperVars, dedupVars, tunnelVars, upstreamVars, sup, shutdown, joinHandle, tunnels>>

\* server.await returns: the drain is over once every connection of the
\* server has finished; a spliced tunnel is no longer one of them.
ServerExit(i) ==
    /\ listeners[i].state = "draining"
    /\ listeners[i].inflight = 0
    /\ listeners' = [listeners EXCEPT ![i].state = "exited"]
    /\ UNCHANGED <<handlerVars, mapperVars, dedupVars, tunnelVars, upstreamVars, sup, shutdown, joinHandle, tunnels>>

\* A join task that also waits for the tunnels to end.
HandleCompletesAfterTunnels ==
    /\ joinHandle = "joining"
    /\ \A i \in DOMAIN listeners : listeners[i].state \in {"exited", "aborted"}
    /\ tunnels = 0
    /\ joinHandle' = "complete"
    /\ UNCHANGED <<handlerVars, mapperVars, dedupVars, tunnelVars, upstreamVars, sup, listeners, shutdown, tunnels>>

\* The join task: join_next() has yielded every server task.
HandleCompletes ==
    /\ joinHandle = "joining"
    /\ \A i \in DOMAIN listeners : listeners[i].state \in {"exited", "aborted"}
    /\ joinHandle' = "complete"
    /\ UNCHANGED <<handlerVars, mapperVars, dedupVars, tunnelVars, upstreamVars, sup, listeners, shutdown, tunnels>>

NextSupervisor ==
    \/ Bind
    \/ Return
    \/ ShutdownCompletes
    \/ NotifyWaiters
    \/ \E i \in DOMAIN listeners : FirstPoll(i)
    \/ \E i \in DOMAIN listeners : Accept(i)
    \/ \E i \in DOMAIN listeners : Respond(i)
    \/ \E i \in DOMAIN listeners : OpenTunnel(i)
    \/ CloseTunnel
    \/ \E i \in DOMAIN listeners : BeginDrain(i)
    \/ \E i \in DOMAIN listeners : ServerExit(i)
    \/ HandleCompletes

\* The caller's thread runs on, the runtime polls every task that is ready,
\* and a request in flight is answered in the end.  When the shutdown future
\* completes, whether a connection arrives and when a tunnel ends are the
\* environment's.
FairSupervisor ==
    /\ WF_vars(Bind)
    /\ WF_vars(Return)
    /\ WF_vars(NotifyWaiters)
    /\ WF_vars(\E i \in DOMAIN listeners : FirstPoll(i))
    /\ WF_vars(\E i \in DOMAIN listeners : Respond(i))
    /\ WF_vars(\E i \in DOMAIN listeners : BeginDrain(i))
    /\ WF_vars(\E i \in DOMAIN listeners : ServerExit(i))
    /\ WF_vars(HandleCompletes)

SpecSupervisor == InitSupervisor /\ [][NextSupervisor]_vars /\ FairSupervisor

(***************************************************************************)
(* main: the --listen addresses are sorted, de-duplicated and filtered     *)
(* before spawn_proxy_multi gets them (src/src/main.rs).  A SocketAddr is  *)
(* [ip, v4, port], ip being the text ip().to_string() gives.               *)
(***************************************************************************)
UNSPECIFIED == <<"0",".","0",".","0",".","0">>

SocketAddrV4(ip, p) == [ip |-> ip, v4 |-> TRUE, port |-> p]
SocketAddrV6(ip, p) == [ip |-> ip, v4 |-> FALSE, port |-> p]

IsUnspecifiedV4(a) == a.v4 /\ a.ip = UNSPECIFIED

\* str's Ord: byte-wise lexicographic.
TextLess(s, t) ==
    \E k \in 1..Len(t) :
        /\ k <= Len(s) + 1
        /\ \A j \in 1..(k - 1) : s[j] = t[j]
        /\ k = Len(s) + 1 \/ Ord(s[k]) < Ord(t[k])

\* The sort_by comparator: port, then the ip's text.
AddrLess(a, b) ==
    \/ a.port < b.port
    \/ a.port = b.port /\ TextLess(a.ip, b.ip)

\* The addresses left in the order given.
UnsortedAddrs(v) == v

\* listens.sort_by(..): a stable sort; the head goes after the elements
\* that are less than it.
RECURSIVE SortAddrs(_)
SortAddrs(v) ==
    IF v = <<>> THEN <<>>
    ELSE LET rest == SortAddrs(Tail(v))
             n == Cardinality({k \in 1..Len(rest) : AddrLess(rest[k], Head(v))})
         IN  SubSeq(rest, 1, n) \o <<Head(v)>> \o SubSeq(rest, n + 1, Len(rest))

\* Vec::dedup: consecutive equal elements collapse into the first.
RECURSIVE Dedup(_)
Dedup(v) ==
    IF Len(v) < 2 THEN v
    ELSE IF v[1] = v[2] THEN Dedup(Tail(v))
    ELSE <<v[1]>> \o Dedup(Tail(v))

\* result.retain(|a| !(a is V4 && a.port() == addr.port()))
RetainNotV4OnPort(result, p) ==
    SelectSeq(result, LAMBDA a : ~(a.v4 /\ a.port = p))

\* result.iter().any(|a| a.port() == addr.port() && a is the V4 wildcard)
ShadowedByWildcard(result, addr) ==
    \E k \in 1..Len(result) : result[k].port = addr.port /\ IsUnspecifiedV4(result[k])

RECURSIVE DedupeLoop(_, _)
DedupeLoop(v, result) ==
    IF v = <<>> THEN result
    ELSE LET addr == Head(v)
         IN  DedupeLoop(Tail(v),
                 IF IsUnspecifiedV4(addr)
                 THEN Append(RetainNotV4OnPort(result, addr.port), addr)
                 ELSE IF ~ShadowedByWildcard(result, addr)
                 THEN Append(result, addr)
                 ELSE result)

dedupe_wildcard_v4(v) == DedupeLoop(v, <<>>)

ListenIps ==
    {[ip |-> UNSPECIFIED, v4 |-> TRUE],
     [ip |-> <<"1","2","7",".","0",".","0",".","1">>, v4 |-> TRUE],
     [ip |-> <<":",":","1">>, v4 |-> FALSE],
     [ip |-> <<":",":">>, v4 |-> FALSE]}
ListenPorts == {8080, 9090}
ListenAddrs == {[ip |-> i.ip, v4 |-> i.v4, port |-> p] : i \in ListenIps, p \in ListenPorts}

InitDedup ==
    /\ HandlersAtRest
    /\ MapperAtRest
    /\ SupervisorAtRest
    /\ TunnelsAtRest
    /\ UpstreamsAtRest
    /\ listens \in UNION {[1..k -> ListenAddrs] : k \in 0..MaxAddrs}
    /\ deduped = NotDeduped

\* main, from args.listen to the list handed to spawn_proxy_multi.
DedupListens ==
    /\ ~deduped.done
    /\ deduped' = [done |-> TRUE, val |-> dedupe_wildcard_v4(Dedup(SortAddrs(listens)))]
    /\ UNCHANGED <<handlerVars, mapperVars, supVars, tunnelVars, upstreamVars, listens>>

NextDedup == DedupListens

SpecDedup == InitDedup /\ [][NextDedup]_vars

(***************************************************************************)
(* The tunnel tasks.  handle_upgrade and handle_connect spawn a detached   *)
(* task and return the response; the task acquires the raw streams once    *)
(* the response is written, splices them with copy_bidirectional and shuts *)
(* both down.  A stream is what its two ends wrote and what they received. *)
(***************************************************************************)
TunnelRequests ==
    Around(<<<<HDR, <<"8","0">>>>>>) \cup Around(<<>>)

\* The bytes the proxy writes to the client when the dial fails.
BAD_GATEWAY_RAW == "HTTP/1.1 502 Bad Gateway\r\nContent-Length: 0\r\n\r\n"

\* What travels on a raw stream: who wrote it, on which tunnel, as its
\* how-manieth write, and the bytes.
ClientByte(k, n) == <<"client", k, n, "client data">>
UpstreamByte(k, n) == <<"upstream", k, n, "upstream data">>
ProxyBytes(k, text) == <<"proxy", k, 1, text>>

\* A task just spawned for the request whose response was `r`.  The client
\* side is hyper's until the task acquires it; the upstream connection of an
\* upgrade is the one the handshake went over, CONNECT has none before its
\* dial.
NewSplice(t, r) ==
    [kind |-> t.kind, target |-> t.target, state |-> "spawned",
     head |-> r.status,
     client |-> "server", up |-> IF t.kind = "upgrade" THEN "pooled" ELSE "none",
     cTx |-> <<>>, upRx |-> <<>>, uTx |-> <<>>, cRx |-> <<>>,
     cFin |-> FALSE, uFin |-> FALSE, c2u |-> "open", u2c |-> "open",
     clWr |-> "open", upWr |-> "open",
     spliced |-> FALSE, cause |-> "none"]

RECURSIVE BytesWritten(_)
BytesWritten(sp) ==
    IF sp = <<>> THEN 0
    ELSE Len(Head(sp).cTx) + Len(Head(sp).uTx) + BytesWritten(Tail(sp))

\* The response is written to the client; the tasks the handler spawned run
\* on their own from here and the connection's request is over.
ResponseWritten ==
    /\ pc = "done"
    /\ splices' = splices \o [i \in 1..Len(task) |-> NewSplice(task[i], resp[1])]
    /\ pc' = "idle"
    /\ req' = NoRequest
    /\ handler' = "none"
    /\ port' = NotRun
    /\ uhost' = NotRun
    /\ upstream' = <<>>
    /\ resp' = <<>>
    /\ task' = <<>>
    /\ reply' = None
    /\ UNCHANGED <<mapperVars, supVars, dedupVars, upstreamVars>>

ServeTunnel ==
    /\ pc = "idle"
    /\ Len(splices) < MaxSplices
    /\ \E r \in TunnelRequests : handle(r)
    /\ UNCHANGED <<reply, others>>

Running(k) == k \in 1..Len(splices)
TaskStep(k, s) ==
    /\ splices' = [splices EXCEPT ![k] = s]
    /\ UNCHANGED <<handlerVars, mapperVars, supVars, dedupVars, upstreamVars>>

\* try_join(on(&mut req), on(upstream_resp)) is Ok: both raw streams are the
\* task's and copy_bidirectional starts.
AcquireUpgrade(k) ==
    /\ Running(k)
    /\ splices[k].kind = "upgrade" /\ splices[k].state = "spawned"
    /\ TaskStep(k, [splices[k] EXCEPT !.state = "copying", !.client = "open",
                                      !.up = "open", !.spliced = TRUE])

\* A CONNECT task that dials before it has the client's stream.
AcquireConnectDialFirst(k) ==
    /\ Running(k)
    /\ splices[k].kind = "connect" /\ splices[k].state = "spawned"
    /\ TaskStep(k, [splices[k] EXCEPT !.state = "dialing"])

\* on(&mut req) is Ok in handle_connect: the dial starts.
AcquireConnect(k) ==
    /\ Running(k)
    /\ splices[k].kind = "connect" /\ splices[k].state = "spawned"
    /\ TaskStep(k, [splices[k] EXCEPT !.state = "dialing", !.client = "open"])

\* An acquisition that fails and leaves the upstream connection as it was.
AcquireFailsLeavingUpstream(k) ==
    /\ Running(k)
    /\ splices[k].state = "spawned"
    /\ TaskStep(k, [splices[k] EXCEPT !.state = "ended", !.client = "closed",
                                      !.cause = "acquire"])

\* The Err arm of either task: a warning, and the task is over.  Whatever
\* try_join had acquired is dropped with the future, and a connection that
\* did not upgrade is closed by its owner.
AcquireFails(k) ==
    /\ Running(k)
    /\ splices[k].state = "spawned"
    /\ TaskStep(k, [splices[k] EXCEPT !.state = "ended", !.client = "closed",
                                      !.up = IF @ = "none" THEN "none" ELSE "closed",
                                      !.cause = "acquire"])

\* TcpStream::connect(&target) is Ok.
DialOk(k) ==
    /\ Running(k)
    /\ splices[k].state = "dialing"
    /\ TaskStep(k, [splices[k] EXCEPT !.state = "copying", !.up = "open",
                                      !.spliced = TRUE])

\* A failed dial after which nothing is written to the client.
DialFailsSilently(k) ==
    /\ Running(k)
    /\ splices[k].state = "dialing"
    /\ TaskStep(k, [splices[k] EXCEPT !.state = "refused", !.cause = "dial"])

\* TcpStream::connect(&target) is Err: the raw 502 is written to the client.
DialFails(k) ==
    /\ Running(k)
    /\ splices[k].state = "dialing"
    /\ TaskStep(k, [splices[k] EXCEPT !.state = "refused", !.cause = "dial",
                                      !.cRx = Append(@, ProxyBytes(k, BAD_GATEWAY_RAW))])

\* upgraded.shutdown() after the raw 502; the task is over.
ShutdownRefused(k) ==
    /\ Running(k)
    /\ splices[k].state = "refused"
    /\ TaskStep(k, [splices[k] EXCEPT !.state = "ended", !.client = "closed"])

\* The ends of the tunnel write, and close their writing side, when they
\* like; the client may write before its tunnel is spliced.
ClientWrites(k) ==
    /\ Running(k)
    /\ splices[k].state # "ended" /\ ~splices[k].cFin
    /\ BytesWritten(splices) < MaxBytes
    /\ TaskStep(k, [splices[k] EXCEPT !.cTx = Append(@, ClientByte(k, Len(@) + 1))])

UpstreamWrites(k) ==
    /\ Running(k)
    /\ splices[k].state # "ended" /\ splices[k].up \in {"pooled", "open"}
    /\ ~splices[k].uFin
    /\ BytesWritten(splices) < MaxBytes
    /\ TaskStep(k, [splices[k] EXCEPT !.uTx = Append(@, UpstreamByte(k, Len(@) + 1))])

ClientCloses(k) ==
    /\ Running(k)
    /\ splices[k].state = "copying" /\ ~splices[k].cFin
    /\ TaskStep(k, [splices[k] EXCEPT !.cFin = TRUE])

UpstreamCloses(k) ==
    /\ Running(k)
    /\ splices[k].state = "copying" /\ ~splices[k].uFin
    /\ TaskStep(k, [splices[k] EXCEPT !.uFin = TRUE])

\* A copy step that hands over the newest byte read.
CopyStepNewest(src, dst) == Append(dst, src[Len(src)])

\* One step of a copy direction: the next byte of the source, not yet
\* written, is written to the destination.
CopyStep(src, dst) == Append(dst, src[Len(dst) + 1])

\* The streams of every task are those of the first task.
PeerOfFirst(k) == 1

\* The two streams a task splices are the two it acquired itself: the
\* closure owns client_upgraded and upstream_upgraded.
Peer(k) == k

\* copy_bidirectional, client to upstream.
CopyToUpstream(k) ==
    /\ Running(k) /\ Running(Peer(k))
    /\ splices[k].state = "copying" /\ splices[k].c2u = "open"
    /\ Len(splices[Peer(k)].upRx) < Len(splices[k].cTx)
    /\ splices' = [splices EXCEPT ![Peer(k)].upRx = CopyStep(splices[k].cTx, @)]
    /\ UNCHANGED <<handlerVars, mapperVars, supVars, dedupVars, upstreamVars>>

\* copy_bidirectional, upstream to client.
CopyToClient(k) ==
    /\ Running(k) /\ Running(Peer(k))
    /\ splices[k].state = "copying" /\ splices[k].u2c = "open"
    /\ Len(splices[k].cRx) < Len(splices[Peer(k)].uTx)
    /\ splices' = [splices EXCEPT ![k].cRx = CopyStep(splices[Peer(k)].uTx, @)]
    /\ UNCHANGED <<handlerVars, mapperVars, supVars, dedupVars, upstreamVars>>

\* A direction reads end of file once everything written was passed on: it
\* shuts down the writing side of its destination and is done, and
\* copy_bidirectional returns Ok when both are.
CopyReturnsIf(done) == IF done THEN "closing" ELSE "copying"

\* A copy that returns at the first end of file.
ClientEofEndsCopy(k) ==
    /\ Running(k)
    /\ splices[k].state = "copying" /\ splices[k].c2u = "open"
    /\ splices[k].cFin /\ Len(splices[k].upRx) = Len(splices[k].cTx)
    /\ TaskStep(k, [splices[k] EXCEPT !.c2u = "done", !.upWr = "shutdown",
                       !.state = "closing", !.cause = "eof"])

ClientEof(k) ==
    /\ Running(k)
    /\ splices[k].state = "copying" /\ splices[k].c2u = "open"
    /\ splices[k].cFin /\ Len(splices[k].upRx) = Len(splices[k].cTx)
    /\ TaskStep(k, [splices[k] EXCEPT !.c2u = "done", !.upWr = "shutdown",
                       !.state = CopyReturnsIf(splices[k].u2c = "done"),
                       !.cause = IF splices[k].u2c = "done" THEN "eof" ELSE @])

UpstreamEof(k) ==
    /\ Running(k)
    /\ splices[k].state = "copying" /\ splices[k].u2c = "open"
    /\ splices[k].uFin /\ Len(splices[k].cRx) = Len(splices[k].uTx)
    /\ TaskStep(k, [splices[k] EXCEPT !.u2c = "done", !.clWr = "shutdown",
                       !.state = CopyReturnsIf(splices[k].c2u = "done"),
                       !.cause = IF splices[k].c2u = "done" THEN "eof" ELSE @])

\* copy_bidirectional returns Err: a warning, and the shutdowns follow.
CopyFails(k) ==
    /\ Running(k)
    /\ splices[k].state = "copying"
    /\ TaskStep(k, [splices[k] EXCEPT !.state = "closing", !.cause = "error"])

\* client_upgraded.shutdown() / upgraded.shutdown().
ShutdownClient(k) ==
    /\ Running(k)
    /\ splices[k].state = "closing"
    /\ TaskStep(k, [splices[k] EXCEPT !.state = "closing_upstream", !.client = "closed"])

\* upstream_upgraded.shutdown() / upstream.shutdown(); the task is over.
ShutdownUpstream(k) ==
    /\ Running(k)
    /\ splices[k].state = "closing_upstream"
    /\ TaskStep(k, [splices[k] EXCEPT !.state = "ended", !.up = "closed"])

\* What the task of tunnel k does by itself, as opposed to its two ends.
TaskRuns(k) ==
    \/ AcquireUpgrade(k) \/ AcquireConnect(k) \/ DialFails(k) \/ ShutdownRefused(k)
    \/ CopyToUpstream(k) \/ CopyToClient(k) \/ ClientEof(k) \/ UpstreamEof(k)
    \/ ShutdownClient(k) \/ ShutdownUpstream(k)

NextTunnel ==
    \/ ServeTunnel
    \/ UpstreamFails
    \/ \E rep \in UpstreamReplies : HttpReply(rep)
    \/ \E rep \in UpstreamReplies : UpgradeReply(rep)
    \/ ResponseWritten
    \/ \E k \in 1..MaxSplices :
        \/ AcquireUpgrade(k)
        \/ AcquireConnect(k)
        \/ AcquireFails(k)
        \/ DialOk(k)
        \/ DialFails(k)
        \/ ShutdownRefused(k)
        \/ ClientWrites(k)
        \/ UpstreamWrites(k)
        \/ ClientCloses(k)
        \/ UpstreamCloses(k)
        \/ CopyToUpstream(k)
        \/ CopyToClient(k)
        \/ ClientEof(k)
        \/ UpstreamEof(k)
        \/ CopyFails(k)
        \/ ShutdownClient(k)
        \/ ShutdownUpstream(k)

\* tokio runs every spawned task that can make progress.
FairTunnel == \A k \in 1..MaxSplices : WF_vars(TaskRuns(k))

SpecTunnel == Init /\ [][NextTunnel]_vars /\ FairTunnel

(***************************************************************************)
(* The upstreams behind the shared client.  Every request of every         *)
(* listener goes through one hyper Client, which dials the authority of    *)
(* the request's URI or reuses an idle connection it holds to it.          *)
(***************************************************************************)
UpstreamWorkspaces ==
    {<<"w","o","r","k","s","p","a","c","e","-","1">>, <<"w","-","2">>, <<"D","e","v">>}
\* A CONNECT with an authority-form request-target, which has no path.
ConnectTo(authority, hs) ==
    [method |-> "CONNECT", uri |-> None, authority |-> authority, headers |-> hs]
RequestTargets == {<<<<"e","x","a","m","p","l","e",".","c","o","m">>, 443>>, <<<<"1","0",".","0",".","0",".","9">>, 80>>}
ConnectRequests ==
    {ConnectTo(a, hs) :
        a \in RequestTargets,
        hs \in {<<<<HDR, <<"8","0">>>>, <<HDR_WS, <<"w","-","2">>>>>>,
                <<<<"host", <<"w","o","r","k","s","p","a","c","e","-","2","-","8","1",".","l","o","c","a","l","h","o","s","t">>>>>>}}
UpstreamRequests ==
    {Request("GET", <<<<HDR, <<"8","0">>>>>> \o hw) : hw \in Opt(HDR_WS, UpstreamWorkspaces)}
        \cup {Request("GET", <<>>)} \cup ConnectRequests

\* host:port of a URI, which is where the client connects.
Authority(uri) == <<uri.host, uri.port>>

\* The authorities the requests can name.
Authorities ==
    {<<upstream_host_from_headers(r.headers, DefaultHost).val, get_port_from_header(r.headers).val>> :
        r \in {q \in UpstreamRequests \ ConnectRequests : get_port_from_header(q.headers).ok}}

\* What the upstream at an authority answers: a body that names it.
ReplyFrom(a) ==
    [status |-> 200, headers |-> <<<<"content-type", <<"t">>>>>>, body |-> a]

\* A pool that keeps its idle connections by port alone.
PoolKeyPortOnly(a) == a[2]

\* The pool keeps idle connections by the authority they were dialled for.
PoolKey(a) == a

\* The upstream a request for authority `a` is exchanged with: the peer of
\* an idle connection kept under its key, or else `a` itself, newly dialled.
UpstreamPeer(a) ==
    IF \E c \in pool : PoolKey(c) = PoolKey(a)
    THEN CHOOSE c \in pool : PoolKey(c) = PoolKey(a)
    ELSE a

\* A client that gives up on an authority it failed to reach last time.
ConnectsUnlessFailedBefore(a) ==
    a \in listening /\ ~(previous.status = 502 /\ previous.target = Some(a))

\* The exchange with an upstream works when something listens there.
Connects(a) == a \in listening

Target == Authority(upstream[Len(upstream)].uri)

ServeUpstreams ==
    /\ pc = "idle"
    /\ \E r \in UpstreamRequests : handle(r)
    /\ UNCHANGED <<reply, others>>

\* client.request(..).await is Ok.
ExchangeOk ==
    /\ pc = "await_upstream"
    /\ Connects(UpstreamPeer(Target))
    /\ HttpReply(ReplyFrom(UpstreamPeer(Target)))

\* client.request(..).await is Err.
ExchangeFails ==
    /\ pc = "await_upstream"
    /\ ~Connects(UpstreamPeer(Target))
    /\ UpstreamFails

\* The response is written; the connection an exchange used goes back to
\* the pool, idle, and nothing else of the request is kept.
RequestOver ==
    /\ pc = "done"
    /\ previous' = [req |-> req, status |-> resp[1].status,
                    target |-> IF upstream # <<>> THEN Some(Target)
                               ELSE IF task # <<>> THEN Some(task[1].target)
                               ELSE None]
    /\ pool' = IF reply # None THEN pool \cup {UpstreamPeer(Target)} ELSE pool
    /\ pc' = "idle"
    /\ req' = NoRequest
    /\ handler' = "none"
    /\ port' = NotRun
    /\ uhost' = NotRun
    /\ upstream' = <<>>
    /\ resp' = <<>>
    /\ task' = <<>>
    /\ reply' = None
    /\ UNCHANGED <<mapperVars, supVars, dedupVars, tunnelVars, listening>>

\* A server starts, or stops, listening at an authority; the connections to
\* a stopped server are gone from the pool.
UpstreamStarts(a) ==
    /\ a \notin listening
    /\ listening' = listening \cup {a}
    /\ UNCHANGED <<handlerVars, mapperVars, supVars, dedupVars, tunnelVars, previous, pool>>

UpstreamStops(a) ==
    /\ a \in listening
    /\ listening' = listening \ {a}
    /\ pool' = pool \ {a}
    /\ UNCHANGED <<handlerVars, mapperVars, supVars, dedupVars, tunnelVars, previous>>

NextUpstreams ==
    \/ ServeUpstreams
    \/ ExchangeOk
    \/ ExchangeFails
    \/ RequestOver
    \/ \E a \in Authorities : UpstreamStarts(a)
    \/ \E a \in Authorities : UpstreamStops(a)

SpecUpstreams == Init /\ [][NextUpstreams]_vars

(***************************************************************************)
(* Claims                                                                  *)
(***************************************************************************)
Serving == pc # "idle"
Statuses == [i \in 1..Len(resp) |-> resp[i].status]
HasHeader(h, name) == \E i \in 1..Len(h) : h[i][1] = name
ValueOf(h, name) == Unwrap(HeaderGet(h, name))

\* The tokens of a comma-separated header value, trimmed and lower-cased.
TokensOf(v) ==
    {to_ascii_lowercase(Trim(t)) : t \in {split(v, ",")[i] : i \in 1..Len(split(v, ","))}}
        \ {<<>>}

\* C1: every request sent upstream, by the HTTP forwarder or by the Upgrade
\* handshake, carries neither X-Cmux-Port-Internal nor
\* X-Cmux-Workspace-Internal, whatever the client sent.
C1_NoRoutingHeadersUpstream ==
    \A i \in 1..Len(upstream) : \A j \in 1..Len(upstream[i].headers) :
        LET name == to_ascii_lowercase(HeaderNameText(upstream[i].headers[j][1]))
        IN  /\ name # HeaderNameText("x-cmux-port-internal")
            /\ name # HeaderNameText("x-cmux-workspace-internal")

C1_Witness ==
    /\ handler = "upgrade"
    /\ Len(upstream) = 1
    /\ HasHeader(req.headers, HDR)
    /\ HasHeader(req.headers, HDR_WS)
    /\ HasHeader(upstream[1].headers, UPGRADE)

\* The hop-by-hop headers of RFC 7230 as the specification lists them.
Rfc7230HopByHop ==
    {"connection", "keep-alive", "proxy-authenticate", "proxy-authorization",
     "te", "trailers", "transfer-encoding", "upgrade", "proxy-connection"}

\* C2: no request sent upstream carries a hop-by-hop header, except that an
\* upgrade request keeps Connection and Upgrade.
C2_NoHopByHopUpstream ==
    \A i \in 1..Len(upstream) :
        HeaderNames(upstream[i].headers) \cap Rfc7230HopByHop
            \subseteq (IF handler = "upgrade" THEN {"connection", "upgrade"} ELSE {})

\* C3: in the HTTP forwarder no header named as a token of the client's
\* Connection header reaches the upstream.
C3_ConnectionListedRemoved ==
    (handler = "http" /\ HasHeader(req.headers, CONNECTION)) =>
        \A i \in 1..Len(upstream) : \A j \in 1..Len(upstream[i].headers) :
            HeaderNameText(upstream[i].headers[j][1])
                \notin TokensOf(ValueOf(req.headers, CONNECTION))

\* C4: routing is resolved before any upstream I/O.  A request whose routing
\* fails is answered 400, nothing is ever sent upstream for it and no tunnel
\* task is started; whatever is sent upstream goes to the resolved host and
\* port.
C4_RoutingBeforeUpstreamIO ==
    Serving =>
        /\ port = get_port_from_header(req.headers)
        /\ ~(port.ok /\ uhost.ok) =>
              /\ Statuses = <<400>>
              /\ upstream = <<>>
              /\ task = <<>>
        /\ (upstream # <<>> \/ task # <<>>) => (port.ok /\ uhost.ok)
        /\ \A i \in 1..Len(upstream) :
              /\ upstream[i].uri.host = uhost.val
              /\ upstream[i].uri.port = port.val
        /\ \A i \in 1..Len(task) : task[i].target = <<uhost.val, port.val>>

C4_Witness ==
    /\ pc = "done"
    /\ handler = "connect"
    /\ port.ok
    /\ ~uhost.ok
    /\ Statuses = <<400>>
    /\ task = <<>>

\* C5: every request is handled by exactly one of the three handlers, and a
\* CONNECT by the CONNECT tunnel, also with Connection: upgrade and Upgrade.
C5_OneHandlerConnectWins ==
    Serving =>
        /\ handler \in {"http", "upgrade", "connect"}
        /\ req.method = "CONNECT" => handler = "connect"
        /\ handler = "connect" => upstream = <<>>
        /\ handler = "http" => task = <<>>
        /\ \A i \in 1..Len(task) : task[i].kind = handler
        /\ Len(upstream) + Len(task) <= 1 \/ handler = "upgrade"

C5_Witness ==
    /\ req.method = "CONNECT"
    /\ HasHeader(req.headers, UPGRADE)
    /\ HasHeader(req.headers, CONNECTION)
    /\ UpgradeText \in TokensOf(ValueOf(req.headers, CONNECTION))
    /\ handler = "connect"
    /\ Len(task) = 1

\* C6: a request other than CONNECT goes to the Upgrade tunnel exactly when
\* `upgrade` is one of the tokens of its Connection header and it has an
\* Upgrade header; otherwise to the HTTP forwarder.
C6_UpgradeIffToken ==
    (Serving /\ req.method # "CONNECT") =>
        LET wants == /\ HasHeader(req.headers, CONNECTION)
                     /\ UpgradeText \in TokensOf(ValueOf(req.headers, CONNECTION))
                     /\ HasHeader(req.headers, UPGRADE)
        IN  handler = (IF wants THEN "upgrade" ELSE "http")

\* C7: the port is resolved in the order explicit header, Host fallback,
\* 400: a valid X-Cmux-Port-Internal wins over a port in Host; without the
\* header a matching Host supplies the port; otherwise the answer is 400.
C7_PortResolutionOrder ==
    Serving =>
        LET hv == HeaderGet(req.headers, HDR)
            valid == /\ IsSome(hv)
                     /\ IsSome(to_str(Unwrap(hv)))
                     /\ IsSome(ParseU16(Trim(Unwrap(hv))))
            fallback == parse_workspace_port_from_host(req.headers)
        IN  IF valid THEN port = Ok(Unwrap(ParseU16(Trim(Unwrap(hv)))))
            ELSE IF ~IsSome(hv) /\ IsSome(fallback) THEN port = Ok(Unwrap(fallback)[2])
            ELSE ~port.ok /\ Statuses = <<400>> /\ upstream = <<>> /\ task = <<>>

C7_Witness ==
    /\ Serving
    /\ HasHeader(req.headers, HDR)
    /\ HasHeader(req.headers, "host")
    /\ IsSome(parse_workspace_port_from_host(req.headers))
    /\ Unwrap(parse_workspace_port_from_host(req.headers))[2] = 81
    /\ port = Ok(80)
    /\ Len(upstream) = 1
    /\ upstream[1].uri.port = 80

\* C8: the host is resolved in the order workspace header, workspace of the
\* Host subdomain, configured default.  A present workspace header decides
\* alone (its mapped IP, or 400 when it has none); without it a matching Host
\* gives the mapped IP of its workspace (or 400), also when the port came
\* from the port header; otherwise the default upstream_host is used.
C8_HostResolutionOrder ==
    (Serving /\ port.ok) =>
        LET hv == HeaderGet(req.headers, HDR_WS)
            fallback == parse_workspace_port_from_host(req.headers)
            mapped(ws) ==
                IF IsSome(workspace_ip_from_name(ws))
                THEN uhost = Ok(Ipv4Text(Unwrap(workspace_ip_from_name(ws))))
                ELSE ~uhost.ok /\ Statuses = <<400>>
        IN  /\ IF IsSome(hv)
               THEN IF IsSome(to_str(Unwrap(hv))) /\ Trim(Unwrap(hv)) # <<>>
                    THEN mapped(Trim(Unwrap(hv)))
                    ELSE ~uhost.ok /\ Statuses = <<400>>
               ELSE IF IsSome(fallback) THEN mapped(Unwrap(fallback)[1])
               ELSE uhost = Ok(DefaultHost)
            /\ (IsSome(hv) /\ Unwrap(hv) = <<"w","o","r","k","s","p","a","c","e","-","1">>)
                  => uhost = Ok(<<"1","2","7",".","1","8",".","0",".","1">>)
            /\ (~IsSome(hv) /\ HeaderGet(req.headers, "host") = Some(<<"w","o","r","k","s","p","a","c","e","-","2","-","8","1",".","l","o","c","a","l","h","o","s","t">>))
                  => uhost = Ok(<<"1","2","7",".","1","8",".","0",".","2">>)

C8_Witness ==
    /\ Serving
    /\ HeaderGet(req.headers, HDR_WS) = Some(<<"w","o","r","k","s","p","a","c","e","-","1">>)
    /\ HeaderGet(req.headers, "host") = Some(<<"w","o","r","k","s","p","a","c","e","-","2","-","8","1",".","l","o","c","a","l","h","o","s","t">>)
    /\ HasHeader(req.headers, HDR)
    /\ uhost = Ok(<<"1","2","7",".","1","8",".","0",".","1">>)
    /\ Len(upstream) = 1
    /\ upstream[1].uri.host = <<"1","2","7",".","1","8",".","0",".","1">>

\* The (workspace, port) pairs the Host text splits into: the text before its
\* first ':' ends in ".localhost" in any case, and the label before that is
\* <workspace>-<port> at its last '-', both non-empty, the port a u16.
HostSplits(text) ==
    LET colon == {i \in 1..Len(text) : text[i] = ":"}
        h == IF colon = {} THEN text
             ELSE SubSeq(text, 1, (CHOOSE i \in colon : \A j \in colon : i <= j) - 1)
        n == Len(h) - Len(SUFFIX)
    IN  {<<SubSeq(h, 1, k - 1), Unwrap(ParseU16(SubSeq(h, k + 1, n)))>> :
            k \in {k \in 2..(n - 1) :
                     /\ h[k] = "-"
                     /\ \A j \in (k + 1)..n : h[j] # "-"
                     /\ to_ascii_lowercase(SubSeq(h, n + 1, Len(h))) = SUFFIX
                     /\ IsSome(ParseU16(SubSeq(h, k + 1, n)))}}

IsVisibleAscii(text) == \A i \in 1..Len(text) : text[i] # NonAscii

\* C9 as claimed: the Host fallback yields (workspace, port) exactly when the
\* Host value splits as above, and nothing in every other case.
C9_HostFallbackExactly ==
    (Serving /\ HasHeader(req.headers, "host")) =>
        LET got == parse_workspace_port_from_host(req.headers)
            want == HostSplits(ValueOf(req.headers, "host"))
        IN  /\ IsSome(got) <=> want # {}
            /\ IsSome(got) => Unwrap(got) \in want

\* C9 amended: the same, for a Host value of visible ASCII; a Host value with
\* any other byte yields nothing.  Without the port header the request's port
\* is the one the Host yields, and 400 when it yields none.
C9_HostFallback ==
    (Serving /\ HasHeader(req.headers, "host")) =>
        LET got == parse_workspace_port_from_host(req.headers)
            want == IF IsVisibleAscii(ValueOf(req.headers, "host"))
                    THEN HostSplits(ValueOf(req.headers, "host"))
                    ELSE {}
        IN  /\ IsSome(got) <=> want # {}
            /\ IsSome(got) => Unwrap(got) \in want
            /\ Cardinality(want) <= 1
            /\ ~HasHeader(req.headers, HDR) =>
                  IF want = {} THEN ~port.ok /\ Statuses = <<400>>
                  ELSE port.ok /\ \E x \in want : port.val = x[2]

C9_Witness ==
    /\ Serving
    /\ ~HasHeader(req.headers, HDR)
    /\ HeaderGet(req.headers, "host") = Some(<<"w","-","-","7",".","L","o","c","a","l","H","o","s","t",":","8">>)
    /\ parse_workspace_port_from_host(req.headers) = Some(<<<<"w", "-">>, 7>>)
    /\ port = Ok(7)

\* Value of a run of decimal digits.
RECURSIVE DecimalValue(_)
DecimalValue(s) ==
    IF s = <<>> THEN 0
    ELSE 10 * DecimalValue(SubSeq(s, 1, Len(s) - 1)) + DigitVal(s[Len(s)])

IsDecimal(s) == s # <<>> /\ \A i \in 1..Len(s) : is_ascii_digit(s[i])

\* C10: a present X-Cmux-Port-Internal decides alone.  The port is N exactly
\* when the trimmed value is a non-empty run of ASCII decimal digits with
\* value N in 0..65535; otherwise the answer is 400, whatever Host says.
C10_PortHeaderDecides ==
    (Serving /\ HasHeader(req.headers, HDR)) =>
        LET s == Trim(ValueOf(req.headers, HDR))
        IN  IF IsDecimal(s) /\ DecimalValue(s) <= 65535
            THEN port = Ok(DecimalValue(s))
            ELSE ~port.ok /\ Statuses = <<400>> /\ upstream = <<>> /\ task = <<>>

(***************************************************************************)
(* The workspace mapper's claims, stated on the name and the returned      *)
(* Option without the mapper's own helpers.                                *)
(***************************************************************************)
Called == wsip.done

DigitChars == {"0", "1", "2", "3", "4", "5", "6", "7", "8", "9"}

\* The part of a name after its last '/': the whole name when it has none.
FinalSegment(n) ==
    LET k == CHOOSE i \in 0..Len(n) :
                 /\ i = 0 \/ n[i] = "/"
                 /\ \A j \in (i + 1)..Len(n) : n[j] # "/"
    IN  [j \in 1..(Len(n) - k) |-> n[k + j]]

\* The longest run of digits a text ends with.
DigitRun(t) ==
    LET k == CHOOSE i \in 0..Len(t) :
                 /\ i = 0 \/ t[i] \notin DigitChars
                 /\ \A j \in (i + 1)..Len(t) : t[j] \in DigitChars
    IN  [j \in 1..(Len(t) - k) |-> t[k + j]]

DigitValue(c) == CHOOSE d \in 0..9 : ToString(d) = c

\* The decimal value of a digit run, modulo 65536.
RECURSIVE DecimalMod65536(_)
DecimalMod65536(ds) ==
    IF ds = <<>> THEN 0
    ELSE (DecimalMod65536(SubSeq(ds, 1, Len(ds) - 1)) * 10 + DigitValue(ds[Len(ds)])) % 65536

RECURSIVE WithoutLeadingZeros(_)
WithoutLeadingZeros(ds) ==
    IF ds # <<>> /\ ds[1] = "0" THEN WithoutLeadingZeros(Tail(ds)) ELSE ds

U32MaxDigits == <<"4","2","9","4","9","6","7","2","9","5">>

\* The decimal value of a digit run is above 4294967295.
ExceedsU32(ds) ==
    LET t == WithoutLeadingZeros(ds)
    IN  \/ Len(t) > Len(U32MaxDigits)
        \/ /\ Len(t) = Len(U32MaxDigits)
           /\ \E i \in 1..Len(t) :
                 /\ DigitValue(t[i]) > DigitValue(U32MaxDigits[i])
                 /\ \A j \in 1..(i - 1) : t[j] = U32MaxDigits[j]

\* The address 127.18.((N >> 8) & 0xFF).(N & 0xFF), N given modulo 65536.
AddressOf(n16) == <<127, 18, n16 \div 256, n16 % 256>>

\* C11: a name whose final segment ends in digits maps to
\* 127.18.((N>>8)&0xFF).(N&0xFF), N the decimal value of the maximal trailing
\* digit run, and to None when N exceeds the u32 range; workspace-1 maps to
\* 127.18.0.1.
C11_TrailingDigitsAddress ==
    /\ Called /\ DigitRun(FinalSegment(wsname)) # <<>> =>
          LET ds == DigitRun(FinalSegment(wsname))
          IN  IF ExceedsU32(ds) THEN wsip.val = None
              ELSE wsip.val = Some(AddressOf(DecimalMod65536(ds)))
    /\ Called /\ wsname = <<"w","o","r","k","s","p","a","c","e","-","1">> =>
          wsip.val = Some(<<127, 18, 0, 1>>)

\* The largest u32 is mapped.
C11_Witness ==
    /\ Called
    /\ wsname = <<"w","4","2","9","4","9","6","7","2","9","5">>
    /\ wsip.val = Some(<<127, 18, 255, 255>>)

\* A u32 as its four bytes, least significant first.
FnvOffsetBytes == <<197, 157, 28, 129>>     \* 0x811C9DC5

\* Bitwise exclusive or of two bytes.
ByteXor(a, b) ==
    LET bit(i) == (((a \div (2 ^ i)) % 2) + ((b \div (2 ^ i)) % 2)) % 2
    IN  bit(0) + 2 * bit(1) + 4 * bit(2) + 8 * bit(3)
          + 16 * bit(4) + 32 * bit(5) + 64 * bit(6) + 128 * bit(7)

\* x * 0x01000193 modulo 2^32: x * 0x193 by long multiplication, plus x << 24.
TimesFnvPrime(x) ==
    LET p1 == x[1] * 403
        p2 == x[2] * 403 + (p1 \div 256)
        p3 == x[3] * 403 + (p2 \div 256)
        p4 == x[4] * 403 + (p3 \div 256) + x[1]
    IN  <<p1 % 256, p2 % 256, p3 % 256, p4 % 256>>

\* The byte of a character after ASCII lower-casing.
LowerByte(c) == IF Ord(c) \in 65..90 THEN Ord(c) + 32 ELSE Ord(c)

\* 32-bit FNV-1a of the ASCII-lowercased text.
RECURSIVE FnvOfLowercased(_)
FnvOfLowercased(t) ==
    IF t = <<>> THEN FnvOffsetBytes
    ELSE LET h == FnvOfLowercased(SubSeq(t, 1, Len(t) - 1))
         IN  TimesFnvPrime(<<ByteXor(h[1], LowerByte(t[Len(t)])), h[2], h[3], h[4]>>)

InWorkspaceNet(ip) ==
    /\ ip[1] = 127
    /\ ip[2] = 18
    /\ ip[3] \in 0..255
    /\ ip[4] \in 0..255

C14_EmptyBaseIsNone ==
    Called /\ FinalSegment(wsname) = <<>> => wsip.val = None

\* C15: a path-like name is mapped to what its final segment alone is
\* mapped to.
C15_PathMapsAsFinalSegment ==
    Called /\ (\E i \in 1..Len(wsname) : wsname[i] = "/") =>
        wsip.val = workspace_ip_from_name(FinalSegment(wsname))

C15_Witness ==
    /\ Called
    /\ wsname = <<"d","e","v","/","w","s","-","2","5","8">>
    /\ wsip.val = Some(<<127, 18, 1, 2>>)

(***************************************************************************)
(* The supervisor's claims.                                                *)
(***************************************************************************)
Panicked == sup.at = "panicked"
Drained(i) == listeners[i].state \in {"draining", "exited"}

\* C16: once the shutdown future has completed, every listener eventually
\* begins its graceful drain and the join handle eventually completes,
\* whenever the completion falls relative to the listeners' start-up (a
\* start-up that panicked has no listeners and no handle, and is left out).
C16_ShutdownReachesEveryListener ==
    /\ (shutdown # "pending") ~> (Panicked \/ \A i \in DOMAIN listeners : Drained(i))
    /\ (shutdown # "pending") ~> (Panicked \/ joinHandle = "complete")

\* C17: a draining listener takes no new request, and its server task does
\* not exit before every request it had in flight has been answered in full.
C17_DrainAnswersInFlight ==
    /\ [](\A i \in DOMAIN listeners :
              listeners[i].state = "exited" => listeners[i].inflight = 0)
    /\ [][\A i \in DOMAIN listeners :
              Drained(i) => listeners'[i].inflight <= listeners[i].inflight]_vars

C17_Witness ==
    \E i \in DOMAIN listeners :
        listeners[i].state = "draining" /\ listeners[i].inflight > 0

\* C18: no step of the shutdown ends a tunnel (a tunnel ends by a step that
\* touches nothing else), and once every server task has exited the join
\* handle completes, open tunnels or not.
C18_TunnelsDetached ==
    /\ [][tunnels' < tunnels => UNCHANGED <<sup, listeners, shutdown, joinHandle>>]_vars
    /\ (joinHandle = "joining" /\ \A i \in DOMAIN listeners : listeners[i].state = "exited")
          ~> (joinHandle = "complete")

C18_Witness ==
    /\ shutdown = "notified"
    /\ joinHandle = "complete"
    /\ tunnels > 0

\* C19: a bind failure on one address leaves the listeners on the other
\* addresses running.
C19_BindFailureEndsOnlyThatListener ==
    \A i, j \in DOMAIN listeners :
        i # j /\ listeners[i].state = "failed" => listeners[j].state # "aborted"

(***************************************************************************)
(* The claims on main's listen addresses.                                  *)
(***************************************************************************)
Survives(a) == \E k \in 1..Len(deduped.val) : deduped.val[k] = a

\* C20: de-duplication removes no non-IPv4 address, and
\* [0.0.0.0:8080, 127.0.0.1:8080, [::1]:8080] becomes exactly
\* [0.0.0.0:8080, [::1]:8080].
C20_NonIpv4Survives ==
    /\ deduped.done =>
          \A k \in 1..Len(listens) : ~listens[k].v4 => Survives(listens[k])
    /\ deduped.done
          /\ listens = <<SocketAddrV4(UNSPECIFIED, 8080),
                         SocketAddrV4(<<"1","2","7",".","0",".","0",".","1">>, 8080),
                         SocketAddrV6(<<":",":","1">>, 8080)>>
          => deduped.val = <<SocketAddrV4(UNSPECIFIED, 8080), SocketAddrV6(<<":",":","1">>, 8080)>>

\* C21: whatever the order and repetitions of the input, the list handed to
\* the supervisor has no port with both 0.0.0.0 and a specific IPv4 address,
\* has no (ip, port) pair twice, and keeps 0.0.0.0:P whenever the input had
\* it.
C21_DedupInvariants ==
    deduped.done =>
        LET out == deduped.val
            wild(a) == a.v4 /\ a.ip = <<"0",".","0",".","0",".","0">>
        IN  /\ \A i, j \in 1..Len(out) :
                   ~(wild(out[i]) /\ out[j].v4 /\ ~wild(out[j]) /\ out[i].port = out[j].port)
            /\ \A i, j \in 1..Len(out) :
                   i # j => ~(out[i].ip = out[j].ip /\ out[i].port = out[j].port)
            /\ \A k \in 1..Len(listens) :
                   wild(listens[k]) => \E i \in 1..Len(out) : out[i] = listens[k]

\* A repeated wildcard, a specific IPv4 address before and after it.
C21_Witness ==
    /\ deduped.done
    /\ listens = <<SocketAddrV4(<<"1","2","7",".","0",".","0",".","1">>, 8080),
                   SocketAddrV4(UNSPECIFIED, 8080),
                   SocketAddrV4(<<"1","2","7",".","0",".","0",".","1">>, 8080)>>
    /\ deduped.val = <<SocketAddrV4(UNSPECIFIED, 8080)>>

(***************************************************************************)
(* The handlers' claims on the upstream's answer.                          *)
(***************************************************************************)
\* The header lines of a header block, with how often each occurs.
Lines(h) == {<<h[i], Cardinality({j \in 1..Len(h) : h[j] = h[i]})>> : i \in 1..Len(h)}

\* C22: an upgrade request gets a tunnel only on a 101 from the upstream; on
\* any other status the client gets the upstream's status, headers and body
\* as they are, and no tunnel task is started.
C22_NonSwitchingPassedOn ==
    /\ handler = "upgrade" /\ task # <<>> => reply # None /\ reply[1].status = 101
    /\ pc = "done" /\ handler = "upgrade" /\ reply # None /\ reply[1].status # 101 =>
          /\ Len(resp) = 1
          /\ resp[1].status = reply[1].status
          /\ Lines(resp[1].headers) = Lines(reply[1].headers)
          /\ resp[1].body = reply[1].body
          /\ task = <<>>

\* The request went to the upstream and no response came back.
ExchangeFailed == pc = "done" /\ upstream # <<>> /\ reply = None

\* C30: when the exchange with the upstream fails before a response is
\* obtained, the HTTP forwarder and the upgrade handshake both answer 502
\* with a plain-text body and start no tunnel.
C30_TransportFailureIs502 ==
    ExchangeFailed /\ handler \in {"http", "upgrade"} =>
        /\ Len(resp) = 1
        /\ resp[1].status = 502
        /\ HasHeader(resp[1].headers, "content-type")
        /\ SubSeq(ValueOf(resp[1].headers, "content-type"), 1, 10)
              = <<"t","e","x","t","/","p","l","a","i","n">>
        /\ resp[1].body \in {"upstream request error", "upstream upgrade error"}
        /\ task = <<>>

C30_Witness ==
    /\ ExchangeFailed
    /\ handler = "upgrade"
    /\ resp[1].status = 502

\* The tunnel tasks that exist.
Splices == {splices[k] : k \in 1..Len(splices)}

\* C23: when the dial of a CONNECT fails, the client's raw stream receives
\* exactly the bytes HTTP/1.1 502 Bad Gateway with Content-Length: 0, the
\* stream is shut down only after they were written, and nothing the client
\* wrote reaches an upstream.
C23_DialFailureWrites502 ==
    \A s \in Splices :
        s.cause = "dial" =>
            /\ s.kind = "connect"
            /\ Len(s.cRx) = 1
            /\ s.cRx[1][1] = "proxy"
            /\ s.cRx[1][4] = "HTTP/1.1 502 Bad Gateway\r\nContent-Length: 0\r\n\r\n"
            /\ s.upRx = <<>> /\ s.uTx = <<>> /\ s.up = "none"
            /\ s.state \in {"refused", "ended"}
            /\ (s.state = "ended") = (s.client = "closed")

C23_Witness ==
    \E s \in Splices :
        s.cause = "dial" /\ s.state = "ended" /\ s.client = "closed" /\ s.cTx # <<>>

\* The HTTP responses the client of a tunnel task has received on its
\* connection: the handler's, and every response the proxy wrote after it.
HttpResponsesSeen(s) ==
    1 + Cardinality({i \in 1..Len(s.cRx) : s.cRx[i][1] = "proxy"})

\* C24: the client of a request sees exactly one HTTP response: the handler
\* returns one, and a tunnel task writes no further one, whatever becomes of
\* the dial or of the acquisition of the raw streams.
C24_ExactlyOneResponse ==
    /\ pc = "done" => Len(resp) = 1
    /\ \A s \in Splices : HttpResponsesSeen(s) = 1

IsPrefix(a, b) == Len(a) <= Len(b) /\ a = SubSeq(b, 1, Len(a))

\* C25: on a spliced tunnel what the upstream has received is, byte for byte
\* and in order, the beginning of what the client wrote, and what the client
\* has received the beginning of what the upstream wrote; when the copy ends
\* at end of file on both sides everything written has arrived.
C25_TunnelBytesInOrder ==
    \A s \in Splices :
        s.spliced =>
            /\ IsPrefix(s.upRx, s.cTx)
            /\ IsPrefix(s.cRx, s.uTx)
            /\ s.cause = "eof" => (s.upRx = s.cTx /\ s.cRx = s.uTx)

C25_Witness ==
    \E s \in Splices :
        s.spliced /\ s.cause = "eof" /\ Len(s.upRx) + Len(s.cRx) = MaxBytes

\* The task of tunnel k is past its splice, or never got to one.
Ending(k) ==
    Running(k) /\ splices[k].state \in {"closing", "closing_upstream", "ended"}
BothClosed(k) ==
    Running(k) /\ splices[k].client = "closed" /\ splices[k].up \in {"closed", "none"}

\* C26: a tunnel task that is through with its splice, at end of file or on
\* an error, goes on to shut down the client stream and the upstream stream;
\* a task that could not acquire its streams leaves none of them open.
C26_BothSidesShutDown ==
    \A k \in 1..MaxSplices : Ending(k) ~> (BothClosed(k) /\ splices[k].state = "ended")

C26_Witness ==
    \E k \in 1..MaxSplices :
        /\ BothClosed(k) /\ splices[k].spliced /\ splices[k].cause = "error"
        /\ splices[k].up = "closed"

\* C27: with several tunnels open at once, the upstream connection of a
\* tunnel receives only what the client of that tunnel wrote, and that
\* client receives only what this upstream connection wrote.
C27_TunnelsIsolated ==
    \A k \in 1..Len(splices) :
        splices[k].spliced =>
            /\ \A i \in 1..Len(splices[k].upRx) :
                   splices[k].upRx[i][1] = "client" /\ splices[k].upRx[i][2] = k
            /\ \A i \in 1..Len(splices[k].cRx) :
                   splices[k].cRx[i][1] = "upstream" /\ splices[k].cRx[i][2] = k

C27_Witness ==
    /\ Len(splices) = 2
    /\ splices[1].state = "copying" /\ splices[2].state = "copying"
    /\ splices[1].upRx # <<>> /\ splices[2].cRx # <<>>

\* The workspace a request names in its workspace header, if any.
WorkspaceOf(r) == HeaderGet(r.headers, HDR_WS)
Exchanging == pc \in {"await_upstream", "done"} /\ upstream # <<>>

\* C28: a request naming workspace ws and port p is exchanged with the
\* upstream at (workspace_ip_from_name(ws), p) and answered with what that
\* upstream sent, whatever connections the shared client holds; when the
\* request before it named the same port and a workspace with another IP, the
\* two went to different upstreams.
C28_SamePortDifferentWorkspaces ==
    (Exchanging /\ IsSome(WorkspaceOf(req))) =>
        LET ws == Unwrap(WorkspaceOf(req))
            expected == <<Ipv4Text(Unwrap(workspace_ip_from_name(ws))),
                          Unwrap(ParseU16(ValueOf(req.headers, HDR)))>>
        IN  /\ Target = expected
            /\ reply # None =>
                   /\ reply[1].body = expected
                   /\ resp[1].body = expected
            /\ (/\ IsSome(previous.target) /\ IsSome(WorkspaceOf(previous.req))
                /\ ValueOf(previous.req.headers, HDR) = ValueOf(req.headers, HDR)
                /\ workspace_ip_from_name(Unwrap(WorkspaceOf(previous.req)))
                       # workspace_ip_from_name(ws))
               => Unwrap(previous.target) # Target

C28_Witness ==
    /\ pc = "done" /\ reply # None
    /\ IsSome(WorkspaceOf(req)) /\ IsSome(WorkspaceOf(previous.req))
    /\ WorkspaceOf(req) # WorkspaceOf(previous.req)
    /\ previous.status = 200
    /\ Unwrap(previous.target) \in pool

\* C29: a request whose upstream listens is answered by that upstream also
\* when the same request was answered 502 just before because nothing
\* listened there then.
C29_FailureNotRemembered ==
    [][(/\ pc = "await_upstream" /\ pc' = "done"
        /\ previous.req = req /\ previous.status = 502
        /\ Target \in listening)
       => (reply' # None /\ resp'[1].status = 200)]_vars

C29_Witness ==
    /\ pc = "done" /\ reply # None /\ resp[1].status = 200
    /\ previous.req = req /\ previous.status = 502 /\ previous.target = Some(Target)

\* The header lines that are to be passed on: neither a routing header, nor
\* hop-by-hop, nor named by the message's own Connection header.
EndToEnd(h) ==
    LET listed == IF HasHeader(h, CONNECTION) THEN TokensOf(ValueOf(h, CONNECTION)) ELSE {}
    IN  {h[i] : i \in {j \in 1..Len(h) :
                         /\ ~IsRoutingHeader(h[j][1])
                         /\ h[j][1] \notin Rfc7230HopByHop
                         /\ HeaderNameText(h[j][1]) \notin listed}}
LinesOf(h) == {h[i] : i \in 1..Len(h)}

\* C31: in the HTTP forwarder every end-to-end header line of the client's
\* request is on the request sent upstream, and every end-to-end header line
\* of the upstream's response is on the response to the client, each line of
\* a repeated name included.
C31_EveryHeaderLineKept ==
    handler = "http" =>
        /\ \A i \in 1..Len(upstream) :
               EndToEnd(req.headers) \subseteq LinesOf(upstream[i].headers)
        /\ (pc = "done" /\ reply # None) =>
               EndToEnd(reply[1].headers) \subseteq LinesOf(resp[1].headers)

\* C32: two CONNECT requests with the same headers and different
\* request-targets are tunnelled to the same host and port.
C32_ConnectTargetFromHeaders ==
    (/\ pc = "done" /\ handler = "connect"
     /\ previous.req.method = "CONNECT"
     /\ previous.req.headers = req.headers)
    => /\ task # <<>>
       /\ previous.target = Some(task[1].target)

C32_Witness ==
    /\ pc = "done" /\ handler = "connect" /\ task # <<>>
    /\ previous.req.method = "CONNECT"
    /\ previous.req.headers = req.headers
    /\ previous.req.authority # req.authority
    /\ ~HasHeader(req.headers, HDR)

\* C33: a listener drains only once the shutdown future has completed, a
\* listener that began to drain never serves again (it takes the signal
\* once), and the join handle is complete only when the server task of every
\* listener has exited.
C33_ShutdownOrdering ==
    /\ [](\A i \in DOMAIN listeners : Drained(i) => shutdown = "notified")
    /\ [][\A i \in DOMAIN listeners :
              Drained(i) => listeners'[i].state \notin {"unbound", "spawned", "serving"}]_vars
    /\ [](joinHandle = "complete" =>
              \A i \in DOMAIN listeners : listeners[i].state = "exited")

C33_Witness ==
    /\ joinHandle = "complete" /\ shutdown = "notified"
    /\ Len(listeners) = MaxListens
    /\ \A i \in DOMAIN listeners : listeners[i].state = "exited"

\* The header lines of h whose name is not `name`.
LinesBut(h, name) == {l \in LinesOf(h) : l[1] # name}

\* C34: on a 101 from the upstream the client is sent a 101 with every
\* header line of the upstream's response and Connection: upgrade; bytes are
\* copied on an upgrade tunnel only once that 101 was written and both raw
\* streams are the task's, and never when an acquisition failed.
C34_UpgradeSpliceAfter101 ==
    /\ (pc = "done" /\ handler = "upgrade" /\ reply # None /\ reply[1].status = 101) =>
           /\ resp[1].status = 101
           /\ LinesBut(reply[1].headers, CONNECTION) \subseteq LinesOf(resp[1].headers)
           /\ <<CONNECTION, UpgradeText>> \in LinesOf(resp[1].headers)
           /\ \A i \in 1..Len(task) : task[i].state = "spawned"
    /\ \A s \in Splices :
           s.kind = "upgrade" =>
               /\ s.head = 101
               /\ (s.upRx # <<>> \/ s.cRx # <<>>) => s.spliced
               /\ s.spliced => (s.client # "server" /\ s.up # "pooled")
               /\ s.cause = "acquire" => (~s.spliced /\ s.upRx = <<>> /\ s.cRx = <<>>)

\* The upstream of a CONNECT task has been dialled, or is being dialled.
Dialled(s) == s.state = "dialing" \/ s.up # "none" \/ s.cause = "dial"

\* C35: a CONNECT with valid routing is answered 200 with Connection:
\* upgrade while its task has done nothing yet; the task dials only with the
\* client's raw stream in hand, and a task that could not acquire that
\* stream never dials.
C35_ConnectOrder ==
    /\ [](/\ (pc = "done" /\ handler = "connect" /\ task # <<>>) =>
                /\ resp[1].status = 200
                /\ <<CONNECTION, UpgradeText>> \in LinesOf(resp[1].headers)
                /\ \A i \in 1..Len(task) : task[i].state = "spawned"
          /\ \A s \in Splices :
                s.kind = "connect" =>
                    /\ s.head = 200
                    /\ Dialled(s) => s.client # "server"
                    /\ s.cause = "acquire" => ~Dialled(s))
    /\ [][\A k \in 1..Len(splices) :
              (splices[k].kind = "connect" /\ ~Dialled(splices[k]) /\ Dialled(splices'[k]))
                  => (splices[k].state = "spawned" /\ splices'[k].client = "open")]_vars

C35_Witness ==
    /\ \E s \in Splices : s.kind = "connect" /\ s.cause = "acquire" /\ s.state = "ended"
    /\ \E s \in Splices : s.kind = "connect" /\ s.spliced /\ s.up = "open"

\* One direction of tunnel k is at end of file, the other still has bytes
\* to pass on.
HalfClosed(k) ==
    /\ Running(k) /\ splices[k].state = "copying"
    /\ \/ splices[k].c2u = "done" /\ Len(splices[k].cRx) < Len(splices[k].uTx)
       \/ splices[k].u2c = "done" /\ Len(splices[k].upRx) < Len(splices[k].cTx)
OtherDirectionOver(k) ==
    /\ Running(k)
    /\ \/ splices[k].cause = "error"
       \/ Len(splices[k].cRx) = Len(splices[k].uTx) /\ Len(splices[k].upRx) = Len(splices[k].cTx)

\* C36: end of file in one direction of a spliced tunnel shuts down only the
\* writing side of the stream that direction wrote to; both streams stay
\* open, the other direction goes on passing bytes until it is at its end
\* too, and the streams are shut down only when both directions are over.
C36_HalfClose ==
    /\ [](\A s \in Splices :
              s.spliced =>
                  /\ (s.c2u = "done") = (s.upWr = "shutdown")
                  /\ (s.u2c = "done") = (s.clWr = "shutdown")
                  /\ s.state = "copying" => (s.client = "open" /\ s.up = "open")
                  /\ (s.client = "closed" \/ s.up = "closed") =>
                         (s.cause = "error" \/ (s.c2u = "done" /\ s.u2c = "done")))
    /\ \A k \in 1..MaxSplices : HalfClosed(k) ~> OtherDirectionOver(k)

C36_Witness ==
    \E s \in Splices :
        /\ s.kind = "upgrade" /\ s.state = "copying"
        /\ s.c2u = "done" /\ s.upWr = "shutdown" /\ s.u2c = "open"
        /\ s.cRx # <<>> /\ Len(s.cRx) < Len(s.uTx)

\* A decimal octet, and a dotted address of 127.18.0.0/16, as texts.
IsOctetText(p) ==
    /\ Len(p) \in 1..3
    /\ \A i \in 1..Len(p) : p[i] \in DigitChars
    /\ (Len(p) > 1 => p[1] # "0")
    /\ (Len(p) = 3 =>
            100 * DigitValue(p[1]) + 10 * DigitValue(p[2]) + DigitValue(p[3]) <= 255)
InWorkspaceNetText(t) ==
    LET parts == split(t, ".")
    IN  /\ Len(parts) = 4
        /\ parts[1] = <<"1","2","7">>
        /\ parts[2] = <<"1","8">>
        /\ IsOctetText(parts[3])
        /\ IsOctetText(parts[4])
Confined(host) == host = DefaultHost \/ InWorkspaceNetText(host)

\* C37: the host a request is resolved to, the host of every request sent
\* upstream and the host of every tunnel target is the configured default
\* host or an address of 127.18.0.0/16, whatever the request's headers.
C37_UpstreamHostConfined ==
    /\ uhost.ok => Confined(uhost.val)
    /\ \A i \in 1..Len(upstream) : Confined(upstream[i].uri.host)
    /\ \A i \in 1..Len(task) : Confined(task[i].target[1])

C37_Witness ==
    /\ HeaderGet(req.headers, "host") = Some(<<"e","x","a","m","p","l","e",".","c","o","m">>)
    /\ ~HasHeader(req.headers, HDR_WS)
    /\ upstream # <<>>
    /\ upstream[1].uri.host = DefaultHost

\* C38: a request without workspace header whose Host has the form
\* <workspace>-<port>.localhost, the workspace ending in a digit run beyond
\* 32 bits, is answered 400: nothing is sent upstream, to the default host or
\* elsewhere, and no tunnel is started.
C38_UnmappableHostWorkspaceIs400 ==
    LET parsed == parse_workspace_port_from_host(req.headers)
    IN  (/\ Serving /\ ~HasHeader(req.headers, HDR_WS)
         /\ IsSome(parsed)
         /\ ExceedsU32(DigitRun(FinalSegment(Unwrap(parsed)[1]))))
        => /\ Statuses = <<400>>
           /\ ~uhost.ok
           /\ upstream = <<>>
           /\ task = <<>>

C38_Witness ==
    /\ pc = "done" /\ port.ok /\ ~HasHeader(req.headers, HDR_WS)
    /\ HeaderGet(req.headers, "host") =
           Some(<<"w","4","2","9","4","9","6","7","2","9","6","-","8","0",".","l","o","c","a","l","h","o","s","t">>)
    /\ Statuses = <<400>>

\* The names of the model whose final segment ends in a digit run within
\* 32 bits.
NumericNames ==
    {n \in NameTexts : /\ DigitRun(FinalSegment(n)) # <<>>
                       /\ ~ExceedsU32(DigitRun(FinalSegment(n)))}

====
